---------------------------- MODULE Spec2Model ----------------------------
(***************************************************************************)
(* Model of the per-camera frame pipeline of backend/video_service.py and  *)
(* of the line-crossing detector of backend/line_crossing_service.py.      *)
(*                                                                         *)
(* Part I  : LineCrossingDetector (trajectories, crossing state, debounce) *)
(* Part II : VideoStream / VideoStreamManager / AIDetectionService.models  *)
(***************************************************************************)
EXTENDS Integers, Sequences, FiniteSets, TLC

None == "None"

(***************************************************************************)
(* Bounds of the exploration (not program constants).                      *)
(***************************************************************************)
\* number of check_line_crossing calls explored with free movement
MaxCalls == 6
\* number of check_line_crossing calls explored along the walking route
MaxRouteCalls == 18
\* number of VideoStream objects the manager creates
MaxStreams == 2
\* number of frames a camera source delivers
MaxFrames == 2
\* number of times a camera source goes down
MaxOutages == 1
\* number of update_camera_config calls per stream
MaxUpdates == 1
\* the boxes of the ROI tests have their corners in 0 .. GridMax
GridMax == 4
\* largest cell of an initial heatmap field, in smallest float32 steps
MaxCell == 40
\* number of HeatmapGenerator.update calls
MaxHeatUpdates == 3
\* updates with detections in the tests of the heatmap bounds, and the
\* longest detection list handed to one update
MaxBlobUpdates == 2
MaxBlobs == 21
\* the clock of the RTSP session stops at MaxTime; stop requests per session
MaxTime == 4
MaxStops == 2
\* the readings of datetime.now() in the violation tests: 0 .. MaxClock
MaxClock == 3
\* downtime periods that the frames of one session close
MaxPeriods == 2
\* processed frames and resets of the counters
MaxCounterCalls == 4
MaxResets == 1
\* frames of the trajectory tests (more than max_trajectory_length)
MaxTrajCalls == 54
\* frames of the look-back tests (more than max_segments + 1)
MaxLookbackCalls == 8
\* coordinates of the points of the direction tests: 0 .. DirGridMax
DirGridMax == 2

(***************************************************************************)
(* Program constants of LineCrossingDetector.__init__                      *)
(***************************************************************************)
max_trajectory_length == 50
reset_distance == 80
min_frames_between_same_direction == 15
\* _detect_crossing looks at min(5, len(trajectory) - 1) segments
max_segments == 5
\* _capture_loop reconnects when consecutive_failures > 10
max_consecutive_failures == 10
\* process_rtsp_stream: max_consecutive_failures = 100
rtsp_max_consecutive_failures == 100
\* decay_rate = 0.98 as a float32: 16441672 / 2^24 = 2055209 / 2097152
decay_rate_num == 2055209
decay_rate_den == 2097152

VARIABLES
    \* ---- LineCrossingDetector ----
    object_trajectories,   \* track_id -> sequence of centers (<<>>: no entry)
    crossed_objects,       \* (track_id, line_id) -> record, a partial function
    line_crossings,        \* the zone configuration handed to every call
    crossing_events,       \* the list returned by the last check_line_crossing
    calls,                 \* history: number of check_line_crossing calls made
    accepted               \* history: every event returned so far, with the
                           \* trajectory length (frames the track was seen) at
                           \* the time of the call

lcvars == <<object_trajectories, crossed_objects, line_crossings,
            crossing_events, calls, accepted>>

VARIABLES
    mgr,      \* VideoStreamManager: streams, lock, the call inside the lock
    ai,       \* AIDetectionService: device, models
    vs,       \* VideoStream objects, by creation number
    source    \* the camera sources (environment)

vsvars == <<mgr, ai, vs, source>>

VARIABLES
    rtsp,     \* the RTSP monitoring session of routers/productivity.py
    client,   \* a caller of get_frame / get_raw_frame and what it was handed
    roi,      \* the last ROI or line test: its arguments and its result
    heatmap,  \* HeatmapGenerator: the field and frame_count
    zone,     \* the counters of the line-crossing zone: the LineCrossing row,
              \* its copy in camera_config, the label drawn on the frame
    last_detections
              \* history: the detections handed to the last call of
              \* check_line_crossing (recorded by the trajectory tests)

xvars == <<rtsp, client, roi, heatmap, zone, last_detections>>

vars == <<lcvars, vsvars, xvars>>

(***************************************************************************)
(* Inputs of the detector: tracks, zone configurations, detections.        *)
(***************************************************************************)
Tracks == {1}
\* the track_id of a detection made without tracking (Python's None)
NoTrackId == -1

\* The zone of the reference scenario: (0,100)-(200,100).
LineCoords == << <<0, 100>>, <<200, 100>> >>

LineConfig(dir) ==
    [id |-> 1, line_coordinates |-> LineCoords, count_direction |-> dir,
     is_active |-> TRUE]

LineConfigs == { <<LineConfig("both")>>, <<LineConfig("down")>> }

\* Centers a tracked object may be seen at.  A, B lie on either side of the
\* zone, within reset_distance; Far lies beyond reset_distance; D, E lie
\* beside the end of the zone (their segments pass the line outside it).
PA == <<100, 80>>
PB == <<100, 120>>
PFar == <<100, 200>>
PD == <<400, 80>>
PE == <<400, 120>>
\* a center exactly on the zone
PL == <<100, 100>>
Points == {PA, PB, PFar, PD, PL}

\* A walking route around the end of the zone, which never leaves the
\* reset_distance band: A -> B crosses the zone downwards, B -> E -> D -> A
\* walks back around its end; the object may also wait at A, or step
\* back from B to A.
RouteNext(p) ==
    CASE p = PA -> {PA, PB}
      [] p = PB -> {PE, PA}
      [] p = PE -> {PD}
      [] OTHER -> {PA}

BoxAt(p) == <<p[1] - 10, p[2] - 10, p[1] + 10, p[2] + 10>>

Detection(t, p) ==
    [track_id |-> t, bbox |-> BoxAt(p), class |-> "person"]

Abs(x) == IF x < 0 THEN -x ELSE x
Min(a, b) == IF a < b THEN a ELSE b

(***************************************************************************)
(* Geometry (pure functions of line_crossing_service.py).  Real-valued     *)
(* results are kept exact: a point is (xn/d, yn/d) with d > 0.             *)
(***************************************************************************)

\* center_x = int((x1 + x2) / 2), center_y = int((y1 + y2) / 2); the
\* coordinates are non-negative, so int() is the floor.
Center(bbox) == << (bbox[1] + bbox[3]) \div 2, (bbox[2] + bbox[4]) \div 2 >>

\* _distance_to_line(point, line) > r, compared on the squares:
\*   |(y2-y1)px - (x2-x1)py + x2 y1 - y2 x1| / line_length > r
distance_to_line_exceeds(point, line_coords, r) ==
    LET x1 == line_coords[1][1]
        y1 == line_coords[1][2]
        x2 == line_coords[2][1]
        y2 == line_coords[2][2]
        px == point[1]
        py == point[2]
        len2 == (x2 - x1) * (x2 - x1) + (y2 - y1) * (y2 - y1)
        num == (y2 - y1) * px - (x2 - x1) * py + x2 * y1 - y2 * x1
    IN  IF len2 = 0
        THEN (px - x1) * (px - x1) + (py - y1) * (py - y1) > r * r
        ELSE num * num > r * r * len2

\* variant: a segment does not contain its endpoints (0 < t < 1, 0 < u < 1)
line_intersection_open(p1, p2, p3, p4) ==
    LET denom == (p1[1] - p2[1]) * (p3[2] - p4[2])
                   - (p1[2] - p2[2]) * (p3[1] - p4[1])
        tn == (p1[1] - p3[1]) * (p3[2] - p4[2])
                - (p1[2] - p3[2]) * (p3[1] - p4[1])
        un == -((p1[1] - p2[1]) * (p1[2] - p3[2])
                  - (p1[2] - p2[2]) * (p1[1] - p3[1]))
        inOpen(n) == IF denom > 0 THEN 0 < n /\ n < denom
                                  ELSE denom < n /\ n < 0
    IN  [crossed |-> denom # 0 /\ inOpen(tn) /\ inOpen(un), point |-> None]

\* _line_intersection(p1, p2, p3, p4): [crossed, point]
line_intersection(p1, p2, p3, p4) ==
    LET x1 == p1[1]
        y1 == p1[2]
        x2 == p2[1]
        y2 == p2[2]
        x3 == p3[1]
        y3 == p3[2]
        x4 == p4[1]
        y4 == p4[2]
        denom == (x1 - x2) * (y3 - y4) - (y1 - y2) * (x3 - x4)
        tn == (x1 - x3) * (y3 - y4) - (y1 - y3) * (x3 - x4)
        un == -((x1 - x2) * (y1 - y3) - (y1 - y2) * (x1 - x3))
        \* 0 <= n/denom <= 1
        inUnit(n) == IF denom > 0 THEN 0 <= n /\ n <= denom
                                  ELSE denom <= n /\ n <= 0
        s == IF denom > 0 THEN 1 ELSE -1
    IN  IF denom = 0
        THEN [crossed |-> FALSE, point |-> None]
        ELSE IF inUnit(tn) /\ inUnit(un)
             THEN [crossed |-> TRUE,
                   point |-> [xn |-> s * (x1 * denom + tn * (x2 - x1)),
                              yn |-> s * (y1 * denom + tn * (y2 - y1)),
                              d |-> s * denom]]
             ELSE [crossed |-> FALSE, point |-> None]

cross_product(p1, p2, p3) ==
    (p2[1] - p1[1]) * (p3[2] - p1[2]) - (p2[2] - p1[2]) * (p3[1] - p1[1])

\* variant: the sides of a horizontal zone exchanged
get_crossing_direction_flipped(prev_pos, curr_pos, line_start, line_end) ==
    IF cross_product(line_start, line_end, prev_pos) < 0
       /\ cross_product(line_start, line_end, curr_pos) > 0
    THEN "down_to_up"
    ELSE "up_to_down"

\* variant: an unresolved sign pattern falls back to "in"
get_crossing_direction_default_in(prev_pos, curr_pos, line_start, line_end) ==
    LET prev_cross == cross_product(line_start, line_end, prev_pos)
        curr_cross == cross_product(line_start, line_end, curr_pos)
        dx == line_end[1] - line_start[1]
        dy == line_end[2] - line_start[2]
    IN  IF Abs(dx) > Abs(dy) /\ prev_cross < 0 /\ curr_cross > 0
            THEN "up_to_down"
        ELSE IF Abs(dx) > Abs(dy) /\ prev_cross > 0 /\ curr_cross < 0
            THEN "down_to_up"
        ELSE IF ~(Abs(dx) > Abs(dy)) /\ prev_cross < 0 /\ curr_cross > 0
            THEN "left_to_right"
        ELSE IF ~(Abs(dx) > Abs(dy)) /\ prev_cross > 0 /\ curr_cross < 0
            THEN "right_to_left"
        ELSE "in"

\* _get_crossing_direction(prev_pos, curr_pos, line_start, line_end)
get_crossing_direction(prev_pos, curr_pos, line_start, line_end) ==
    LET prev_cross == cross_product(line_start, line_end, prev_pos)
        curr_cross == cross_product(line_start, line_end, curr_pos)
        dx == line_end[1] - line_start[1]
        dy == line_end[2] - line_start[2]
    IN  IF Abs(dx) > Abs(dy) /\ prev_cross < 0 /\ curr_cross > 0
            THEN "up_to_down"
        ELSE IF Abs(dx) > Abs(dy) /\ prev_cross > 0 /\ curr_cross < 0
            THEN "down_to_up"
        ELSE IF ~(Abs(dx) > Abs(dy)) /\ prev_cross < 0 /\ curr_cross > 0
            THEN "left_to_right"
        ELSE IF ~(Abs(dx) > Abs(dy)) /\ prev_cross > 0 /\ curr_cross < 0
            THEN "right_to_left"
        ELSE IF prev_cross < 0 /\ curr_cross > 0
            THEN "in"
        ELSE "out"

\* direction_mapping of _should_count_crossing
direction_mapping(count_direction) ==
    CASE count_direction = "up" -> {"up_to_down", "in"}
      [] count_direction = "down" -> {"down_to_up", "out"}
      [] count_direction = "left" -> {"left_to_right", "in"}
      [] count_direction = "right" -> {"right_to_left", "out"}
      [] OTHER -> {}

\* variant: no direction filter
should_count_any(direction, line_config) == TRUE

\* _should_count_crossing (lines 366-381)
should_count_crossing(direction, line_config) ==
    IF line_config.count_direction = "both"
    THEN TRUE
    ELSE direction \in direction_mapping(line_config.count_direction)


(***************************************************************************)
(* LineCrossingDetector._detect_crossing                                   *)
(***************************************************************************)

\* The segments tested: i = 0 .. min(5, len - 1) - 1, newest first;
\* segment i is trajectory[-(i+2)] -> trajectory[-(i+1)].
\* variant: every segment of the trajectory is tested
segments_to_check_all(trajectory) == Len(trajectory) - 1

segments_to_check(trajectory) == Min(max_segments, Len(trajectory) - 1)

segment_prev(trajectory, i) == trajectory[Len(trajectory) - (i + 1)]
segment_curr(trajectory, i) == trajectory[Len(trajectory) - i]

segment_crosses(trajectory, i, line_coords) ==
    line_intersection(segment_prev(trajectory, i), segment_curr(trajectory, i),
                      line_coords[1], line_coords[2]).crossed

\* the indices of the tested segments that intersect the line
crossing_segments(trajectory, line_coords) ==
    { i \in 0 .. (segments_to_check(trajectory) - 1) :
        segment_crosses(trajectory, i, line_coords) }

\* the loop breaks at the first (most recent) intersecting segment
first_crossing_segment(trajectory, line_coords) ==
    CHOOSE i \in crossing_segments(trajectory, line_coords) :
        \A j \in crossing_segments(trajectory, line_coords) : i <= j

\* variant: no de-duplication
suppressed_never(record, crossing_direction) == FALSE

\* variant: the de-duplication ignores the direction
suppressed_any_direction(record, crossing_direction) ==
    record.frames_since_cross < min_frames_between_same_direction

\* same-direction test of the de-duplication (lines 199-203)
suppressed(record, crossing_direction) ==
    /\ record.last_direction = crossing_direction
    /\ record.frames_since_cross < min_frames_between_same_direction

\* lines 191-227: the de-duplication and the new crossing record.
\* Result: [hit, crossed, event]; crossed is the updated crossed_objects.
count_crossing(crossed, crossing_key, crossing_direction, intersection_point, last_pos, detection) ==
    IF /\ crossing_key \in DOMAIN crossed
       /\ suppressed(crossed[crossing_key], crossing_direction)
    THEN [hit |-> FALSE, crossed |-> crossed, event |-> None]
    ELSE [hit |-> TRUE,
          crossed |-> [k \in (DOMAIN crossed) \cup {crossing_key} |->
                         IF k = crossing_key
                         THEN [last_direction |-> crossing_direction,
                               last_pos |-> last_pos,
                               frames_since_cross |-> 0]
                         ELSE crossed[k]],
          event |-> [track_id |-> crossing_key[1],
                     object_class |-> detection.class,
                     direction |-> crossing_direction,
                     crossing_point |-> intersection_point,
                     bbox |-> detection.bbox]]

\* lines 174-186 for the segment i the loop stops at
crossing_of_segment(trajectory, crossed, crossing_key, line_coords, detection, i) ==
    count_crossing(crossed, crossing_key,
        get_crossing_direction(segment_prev(trajectory, i),
                               segment_curr(trajectory, i),
                               line_coords[1], line_coords[2]),
        line_intersection(segment_prev(trajectory, i),
                          segment_curr(trajectory, i),
                          line_coords[1], line_coords[2]).point,
        trajectory[Len(trajectory)], detection)

detect_crossing(trajectory, crossed, track_id, line_id, line_coords, detection) ==
    IF Len(trajectory) < 2
    THEN [hit |-> FALSE, crossed |-> crossed, event |-> None]
    ELSE IF crossing_segments(trajectory, line_coords) = {}
    THEN [hit |-> FALSE, crossed |-> crossed, event |-> None]
    ELSE crossing_of_segment(trajectory, crossed, <<track_id, line_id>>,
                             line_coords, detection,
                             first_crossing_segment(trajectory, line_coords))

(***************************************************************************)
(* LineCrossingDetector.check_line_crossing: the loop over the lines for   *)
(* one detection, then the loop over the detections.  The state threaded   *)
(* through the loops is [traj, crossed, events].                           *)
(***************************************************************************)

\* variant: the frames since the last crossing are not counted
age_and_reset_no_count(crossed, crossing_key, center, line_coords) ==
    IF crossing_key \notin DOMAIN crossed THEN crossed
    ELSE IF distance_to_line_exceeds(center, line_coords, reset_distance)
         THEN [k \in (DOMAIN crossed) \ {crossing_key} |-> crossed[k]]
         ELSE crossed

\* lines 102-113: count the frame and re-arm when the object is far away
age_and_reset(crossed, crossing_key, center, line_coords) ==
    IF crossing_key \notin DOMAIN crossed THEN crossed
    ELSE IF distance_to_line_exceeds(center, line_coords, reset_distance)
         THEN [k \in (DOMAIN crossed) \ {crossing_key} |-> crossed[k]]
         ELSE [crossed EXCEPT ![crossing_key].frames_since_cross = @ + 1]

\* lines 123-132: complete the event and apply the direction filter
collect_event(st, line_config, info) ==
    IF info.hit /\ should_count_crossing(info.event.direction, line_config)
    THEN [st EXCEPT !.crossed = info.crossed,
                    !.events = Append(@,
                        [line_id |-> line_config.id,
                         count_direction |-> line_config.count_direction,
                         track_id |-> info.event.track_id,
                         object_class |-> info.event.object_class,
                         direction |-> info.event.direction,
                         crossing_point |-> info.event.crossing_point,
                         bbox |-> info.event.bbox])]
    ELSE [st EXCEPT !.crossed = info.crossed]

\* body of "for line_config in line_crossings" (lines 92-132)
check_one_line(st, detection, center, line_config) ==
    IF ~line_config.is_active THEN st
    ELSE IF Len(line_config.line_coordinates) # 2 THEN st
    ELSE collect_event(st, line_config,
            detect_crossing(st.traj[detection.track_id],
                            age_and_reset(st.crossed,
                                          <<detection.track_id, line_config.id>>,
                                          center, line_config.line_coordinates),
                            detection.track_id, line_config.id,
                            line_config.line_coordinates, detection))

RECURSIVE check_lines(_, _, _, _)
check_lines(st, detection, center, lines) ==
    IF lines = <<>> THEN st
    ELSE check_lines(check_one_line(st, detection, center, Head(lines)),
                     detection, center, Tail(lines))

\* variant: on overflow the newest point is the one dropped
append_center_keep_oldest(trajectory, center) ==
    IF Len(trajectory) >= max_trajectory_length THEN trajectory
    ELSE Append(trajectory, center)

\* lines 84-89: append the center, keep the most recent 50
append_center(trajectory, center) ==
    LET t == Append(trajectory, center)
    IN  IF Len(t) > max_trajectory_length THEN Tail(t) ELSE t

\* body of "for detection in detections" (lines 69-132)
check_one_detection(st, detection, lines) ==
    IF detection.track_id = NoTrackId THEN st
    ELSE IF Len(detection.bbox) # 4 THEN st
    ELSE check_lines([st EXCEPT !.traj[detection.track_id] =
                                    append_center(@, Center(detection.bbox))],
                     detection, Center(detection.bbox), lines)

RECURSIVE check_detections(_, _, _)
check_detections(st, detections, lines) ==
    IF detections = <<>> THEN st
    ELSE check_detections(check_one_detection(st, Head(detections), lines),
                          Tail(detections), lines)

check_line_crossing(traj, crossed, detections, lines) ==
    IF lines = <<>>
    THEN [traj |-> traj, crossed |-> crossed, events |-> <<>>]
    ELSE check_detections([traj |-> traj, crossed |-> crossed, events |-> <<>>],
                          detections, lines)

(***************************************************************************)
(* The detector as a state machine.                                        *)
(***************************************************************************)
EmptyCrossed == [k \in {} |-> None]

LCInit ==
    /\ object_trajectories = [t \in Tracks |-> <<>>]
    /\ crossed_objects = EmptyCrossed
    /\ line_crossings \in LineConfigs
    /\ crossing_events = <<>>
    /\ calls = 0
    /\ accepted = <<>>

\* history: the events of this call, stamped with the call number and with
\* the number of frames in which the track has been seen
stamp(events, traj, n) ==
    [i \in 1 .. Len(events) |->
        [call |-> n,
         seen |-> Len(traj[events[i].track_id]),
         track_id |-> events[i].track_id,
         line_id |-> events[i].line_id,
         direction |-> events[i].direction,
         crossing_point |-> events[i].crossing_point]]

DoCheck(detections) ==
    \E r \in {check_line_crossing(object_trajectories, crossed_objects,
                                  detections, line_crossings)} :
        /\ object_trajectories' = r.traj
        /\ crossed_objects' = r.crossed
        /\ crossing_events' = r.events
        /\ calls' = calls + 1
        /\ accepted' = accepted \o stamp(r.events, r.traj, calls + 1)
        /\ UNCHANGED <<line_crossings, vsvars, xvars>>

\* one processed frame in which track t is detected at center p
CheckLineCrossing(t, p) ==
    /\ calls < MaxCalls
    /\ DoCheck(<<Detection(t, p)>>)

\* one processed frame in which nothing is tracked (no detection, or a
\* detection without track id)
CheckNoTrack ==
    /\ calls < MaxCalls
    /\ \E d \in {<<>>, <<Detection(NoTrackId, PA)>>} :
          DoCheck(d)

\* one processed frame of an object that follows the walking route
CheckLineCrossingRoute(t, p) ==
    /\ calls < MaxRouteCalls
    /\ p \in (IF object_trajectories[t] = <<>> THEN {PA}
              ELSE RouteNext(object_trajectories[t][Len(object_trajectories[t])]))
    /\ DoCheck(<<Detection(t, p)>>)

LCRouteInit ==
    /\ LCInit
    /\ line_crossings = <<LineConfig("both")>>

LCNext ==
    \/ \E t \in Tracks, p \in Points : CheckLineCrossing(t, p)
    \/ CheckNoTrack

LCRouteNext ==
    \E t \in Tracks, p \in {PA, PB, PD, PE} : CheckLineCrossingRoute(t, p)


(***************************************************************************)
(* Properties of the detector.  They are stated on the history: the        *)
(* trajectory (complete while it is shorter than max_trajectory_length)    *)
(* and the log of returned events; the k-th center of a track is the       *)
(* frame in which the track was seen for the k-th time.                    *)
(***************************************************************************)
IsBoth == line_crossings[1].count_direction = "both"
L1 == line_crossings[1].line_coordinates[1]
L2 == line_crossings[1].line_coordinates[2]

\* twice the signed area of the triangle a, b, p
Orient(a, b, p) ==
    (b[1] - a[1]) * (p[2] - a[2]) - (b[2] - a[2]) * (p[1] - a[1])

Traj(t) == object_trajectories[t]

\* the k-th center lies strictly on the other side of the zone than the
\* (k-1)-th, and the segment between them meets the zone
StrictCrossAt(t, k) ==
    /\ k \in 2 .. Len(Traj(t))
    /\ Orient(L1, L2, Traj(t)[k - 1]) * Orient(L1, L2, Traj(t)[k]) < 0
    /\ Orient(Traj(t)[k - 1], Traj(t)[k], L1)
         * Orient(Traj(t)[k - 1], Traj(t)[k], L2) <= 0

\* the label of a strict crossing that ends at the k-th center
LabelAt(t, k) ==
    IF Abs(L2[1] - L1[1]) > Abs(L2[2] - L1[2])
    THEN IF Orient(L1, L2, Traj(t)[k]) > 0 THEN "up_to_down" ELSE "down_to_up"
    ELSE IF Orient(L1, L2, Traj(t)[k]) > 0 THEN "left_to_right"
                                           ELSE "right_to_left"

FarAt(t, k) == distance_to_line_exceeds(Traj(t)[k], <<L1, L2>>, reset_distance)

\* the events returned by the call that processed the k-th center of t
EventsAt(t, k) ==
    { i \in DOMAIN accepted : accepted[i].track_id = t /\ accepted[i].seen = k }

CountedAt(t, k) == EventsAt(t, k) # {}

CountedAs(t, k, dir) ==
    \E i \in EventsAt(t, k) : accepted[i].direction = dir

Crossings(t) == { k \in 2 .. Len(Traj(t)) : StrictCrossAt(t, k) }

\* i < j are two crossings of the zone in the same direction, fewer than
\* min_frames_between_same_direction frames apart, and the object stayed
\* within reset_distance from the first to the second
RepeatWithin(t, i, j) ==
    /\ i < j
    /\ LabelAt(t, i) = LabelAt(t, j)
    /\ j - i < min_frames_between_same_direction
    /\ \A k \in i .. j : ~FarAt(t, k)

\* no crossing in a direction other than that of the crossing i was counted
\* between the crossings i and j
NoOtherDirectionBetween(t, i, j) ==
    \A k \in (i + 1) .. (j - 1) : \A e \in EventsAt(t, k) :
        accepted[e].direction = LabelAt(t, i)

\* C2 as stated: P3 (debounce), two same-direction crossings fewer than 15
\* frames apart, within reset_distance, yield exactly one accepted event.
C2_Original ==
    IsBoth =>
      \A t \in Tracks : \A i \in Crossings(t) : \A j \in Crossings(t) :
        RepeatWithin(t, i, j) =>
          Cardinality({k \in {i, j} : CountedAt(t, k)}) = 1

\* C2 (amended): P3 (debounce) - of two same-direction crossings fewer than
\* 15 frames apart with the object within reset_distance, when the first was
\* counted and no crossing in another direction was counted between the two,
\* the second is suppressed: exactly one event is accepted for the two.
C2_Debounce ==
    IsBoth =>
      \A t \in Tracks : \A i \in Crossings(t) : \A j \in Crossings(t) :
        ( /\ RepeatWithin(t, i, j)
          /\ CountedAt(t, i)
          /\ NoOtherDirectionBetween(t, i, j) )
        => ~CountedAt(t, j)

C2_Witness ==
    /\ IsBoth
    /\ \E t \in Tracks : \E i \in Crossings(t) : \E j \in Crossings(t) :
         /\ RepeatWithin(t, i, j)
         /\ CountedAs(t, i, LabelAt(t, i))
         /\ NoOtherDirectionBetween(t, i, j)
         /\ ~CountedAt(t, j)
         /\ j = Len(Traj(t))

\* j is the first crossing after the crossing i, and goes the other way
CrossesBack(t, i, j) ==
    /\ i < j
    /\ LabelAt(t, i) # LabelAt(t, j)
    /\ \A k \in (i + 1) .. (j - 1) : ~StrictCrossAt(t, k)

\* the crossing i repeats a crossing counted in the same direction fewer
\* than min_frames_between_same_direction frames earlier
DebouncedRepeat(t, i) ==
    \E e \in DOMAIN accepted :
        /\ accepted[e].track_id = t
        /\ accepted[e].direction = LabelAt(t, i)
        /\ accepted[e].seen < i
        /\ i - accepted[e].seen < min_frames_between_same_direction

\* C3 as stated: P2 (crossing symmetry), a crossing followed by a crossing
\* back in the opposite direction: both are accepted as events.
C3_Original ==
    IsBoth =>
      \A t \in Tracks : \A i \in Crossings(t) : \A j \in Crossings(t) :
        CrossesBack(t, i, j) => CountedAt(t, i) /\ CountedAt(t, j)

\* C3 (amended): P2 (crossing symmetry) - the crossing back in the opposite
\* direction is accepted as an event whatever the number of frames since the
\* first crossing; the first crossing is accepted too unless it is itself a
\* same-direction repeat within the debounce window.
C3_OppositeAccepted ==
    IsBoth =>
      \A t \in Tracks : \A i \in Crossings(t) : \A j \in Crossings(t) :
        CrossesBack(t, i, j) =>
          /\ CountedAs(t, j, LabelAt(t, j))
          /\ CountedAs(t, i, LabelAt(t, i)) \/ DebouncedRepeat(t, i)

C3_Witness ==
    /\ IsBoth
    /\ \E t \in Tracks : \E i \in Crossings(t) :
         /\ i + 1 = Len(Traj(t))
         /\ CrossesBack(t, i, i + 1)
         /\ CountedAs(t, i, LabelAt(t, i))
         /\ CountedAs(t, i + 1, LabelAt(t, i + 1))

\* the last event counted for t before its j-th center
LastCountedBefore(t, j) ==
    CHOOSE e \in DOMAIN accepted :
        /\ accepted[e].track_id = t
        /\ accepted[e].seen < j
        /\ \A f \in DOMAIN accepted :
              (accepted[f].track_id = t /\ accepted[f].seen < j) => f <= e

\* C4: P4 (reset) - once a frame was processed with the center farther than
\* reset_distance from the zone, the next crossing in the direction of the
\* last counted one is accepted, however few frames have elapsed.
C4_Reset ==
    IsBoth =>
      \A t \in Tracks : \A j \in Crossings(t) : \A f \in 1 .. (j - 1) :
        ( /\ FarAt(t, f)
          /\ \A k \in (f + 1) .. (j - 1) : ~StrictCrossAt(t, k)
          /\ \E e \in DOMAIN accepted :
                accepted[e].track_id = t /\ accepted[e].seen < j
          /\ accepted[LastCountedBefore(t, j)].direction = LabelAt(t, j) )
        => CountedAs(t, j, LabelAt(t, j))

\* C5: the reference scenario - zone (0,100)-(200,100), count_direction
\* both, centers (100,80) then (100,120): the call that processes the second
\* center returns exactly one event, up_to_down, at (100,100).
C5_Scenario ==
    \A t \in Tracks :
      ( /\ IsBoth
        /\ <<L1, L2>> = << <<0, 100>>, <<200, 100>> >>
        /\ Len(Traj(t)) >= 2
        /\ Traj(t)[1] = <<100, 80>>
        /\ Traj(t)[2] = <<100, 120>> )
      => /\ Cardinality(EventsAt(t, 2)) = 1
         /\ \A i \in EventsAt(t, 2) :
              /\ accepted[i].direction = "up_to_down"
              /\ accepted[i].crossing_point.xn = 100 * accepted[i].crossing_point.d
              /\ accepted[i].crossing_point.yn = 100 * accepted[i].crossing_point.d

C5_Witness ==
    /\ IsBoth
    /\ Traj(1) = << <<100, 80>>, <<100, 120>> >>
    /\ Len(crossing_events) = 1
    /\ crossing_events[1].direction = "up_to_down"

\* C6: a same-direction crossing is accepted once at least 15 frames in
\* which the track was seen have elapsed since its last counted crossing,
\* also when the object never moved beyond reset_distance in between.
C6_AcceptedAfterWindow ==
    IsBoth =>
      \A t \in Tracks : \A j \in Crossings(t) :
        ( /\ \E e \in DOMAIN accepted :
                accepted[e].track_id = t /\ accepted[e].seen < j
          /\ accepted[LastCountedBefore(t, j)].direction = LabelAt(t, j)
          /\ j - accepted[LastCountedBefore(t, j)].seen
               >= min_frames_between_same_direction )
        => CountedAs(t, j, LabelAt(t, j))

C6_Witness ==
    /\ IsBoth
    /\ \E t \in Tracks : \E j \in Crossings(t) :
         /\ j = Len(Traj(t))
         /\ \E e \in DOMAIN accepted :
               accepted[e].track_id = t /\ accepted[e].seen < j
         /\ accepted[LastCountedBefore(t, j)].direction = LabelAt(t, j)
         /\ j - accepted[LastCountedBefore(t, j)].seen
              >= min_frames_between_same_direction
         /\ \A k \in 1 .. j : ~FarAt(t, k)
         /\ CountedAs(t, j, LabelAt(t, j))


(***************************************************************************)
(*                                                                         *)
(* Part II: VideoStreamManager, VideoStream, AIDetectionService.models     *)
(*                                                                         *)
(* Threads: the callers of the manager (one call at a time is inside the   *)
(* manager lock), and per VideoStream object a capture thread and a        *)
(* processing thread.  Time is not modelled: a sleep is a step boundary,   *)
(* and join(timeout=5) returns whether or not the thread has finished.     *)
(* A frame is its sequence number at the camera source; 0 is None; the     *)
(* frame with the detections drawn on it is the negative of the number.    *)
(* A configuration snapshot is its version number (1 at start_stream) and  *)
(* the model selector it carries.                                          *)
(***************************************************************************)
Cams == {1, 2}
Streams == 1 .. MaxStreams
Models == {"raw_stream", "general_detection"}
\* torch.cuda.is_available() or not; is_cpu_mode is the negation
\* (an MPS device behaves like cuda:0 without the cleanup of stop())
Devices == {"cuda:0", "cpu"}

NoCall == [op |-> "none", cam |-> 0, pc |-> "none", model |-> "none"]

\* history: the last call of _handle_violation, with the reading of the
\* clock it took and whether it returned at the rate limit
NoViolation ==
    [object_class |-> "none", roi_name |-> "none", current_time |-> 0,
     dropped |-> FALSE]

\* VideoStream.__init__ (the object before it is created has the same fields;
\* last_detection_time: the dict, empty; detections_saved, alerts_sent:
\* the Detection rows committed and the alert mails sent for this camera)
NewVideoStream(c, m) ==
    [camera_id |-> c, custom_model |-> m, config |-> 0,
     is_raw_stream |-> FALSE, cycle_model |-> "none",
     cfg_sampled |-> 0, cfg_first |-> 0, cfg_last |-> 0,
     running |-> FALSE, cap |-> "none",
     capture |-> "new", consecutive_failures |-> 0,
     captured_frame |-> 0, last_written |-> 0,
     processing |-> "new", frame |-> 0, processed_frame |-> 0,
     frame_counter |-> 0, last_processed_frame |-> 0,
     latest_frame |-> 0, raw_frame |-> 0,
     raised |-> "none", stop |-> "idle",
     heatmap_enabled |-> FALSE, heatmap_generator |-> "none",
     update |-> "idle",
     last_detection_time |-> <<>>,
     detections_saved |-> {}, alerts_sent |-> {},
     violation |-> NoViolation]

is_cpu_mode == ai.device = "cpu"

(***************************************************************************)
(* Camera sources                                                          *)
(***************************************************************************)
SourceDown(c) ==
    /\ source[c].up
    /\ source[c].outages < MaxOutages
    /\ source' = [source EXCEPT ![c].up = FALSE, ![c].outages = @ + 1]
    /\ UNCHANGED <<lcvars, xvars, mgr, ai, vs>>

SourceUp(c) ==
    /\ ~source[c].up
    /\ source' = [source EXCEPT ![c].up = TRUE]
    /\ UNCHANGED <<lcvars, xvars, mgr, ai, vs>>

(***************************************************************************)
(* VideoStream._capture_loop / _reconnect_camera                           *)
(***************************************************************************)
\* cv2.VideoCapture(...): the handle is open when the source answers
open_capture(c) == IF source[c].up THEN "open" ELSE "unopened"

\* variant: release() leaves the handle as it is
release_capture_not(cap) == cap

\* cap.release() on "if self.cap:"
release_capture(cap) == IF cap = "none" THEN "none" ELSE "released"

\* variant: the register keeps its first frame (no overwrite)
write_captured_keep_first(v, f) ==
    [v EXCEPT !.consecutive_failures = 0,
              !.captured_frame = IF @ = 0 THEN f ELSE @,
              !.last_written = f]

\* lines 224-227: self.captured_frame = frame
write_captured(v, f) ==
    [v EXCEPT !.consecutive_failures = 0,
              !.captured_frame = f,
              !.last_written = f]

\* lines 162-200: open the source; give up when it does not open
CaptureOpen(s) ==
    /\ vs[s].capture = "open"
    /\ vs' = [vs EXCEPT ![s].cap = open_capture(vs[s].camera_id),
                        ![s].capture = IF source[vs[s].camera_id].up
                                       THEN "loop" ELSE "done"]
    /\ UNCHANGED <<lcvars, xvars, mgr, ai, source>>

\* line 209 and lines 240-243: the loop ends, the handle is released
CaptureExit(s) ==
    /\ vs[s].capture = "loop"
    /\ ~vs[s].running
    /\ vs' = [vs EXCEPT ![s].cap = release_capture(@), ![s].capture = "done"]
    /\ UNCHANGED <<lcvars, xvars, mgr, ai, source>>

\* lines 212, 224-227: a successful read
CaptureRead(s) ==
    /\ vs[s].capture = "loop"
    /\ vs[s].running
    /\ vs[s].cap = "open"
    /\ source[vs[s].camera_id].up
    /\ source[vs[s].camera_id].frames < MaxFrames
    /\ source' = [source EXCEPT ![vs[s].camera_id].frames = @ + 1]
    /\ vs' = [vs EXCEPT ![s] =
                 write_captured(@, source[vs[s].camera_id].frames + 1)]
    /\ UNCHANGED <<lcvars, xvars, mgr, ai>>

\* variant: the reconnect starts when the count reaches the threshold
reconnect_due_at_threshold(n) == n >= max_consecutive_failures

\* line 216: if consecutive_failures > 10
reconnect_due(n) == n > max_consecutive_failures

\* lines 212-222: a failed read (source down, handle not open or released)
CaptureReadFails(s) ==
    /\ vs[s].capture = "loop"
    /\ vs[s].running
    /\ vs[s].cap # "open" \/ ~source[vs[s].camera_id].up
    /\ vs' = [vs EXCEPT
                ![s].consecutive_failures = @ + 1,
                ![s].capture =
                    IF reconnect_due(vs[s].consecutive_failures + 1)
                    THEN "reconnect" ELSE "loop"]
    /\ UNCHANGED <<lcvars, xvars, mgr, ai, source>>

\* lines 249-252: release the handle, pause
CaptureReconnect(s) ==
    /\ vs[s].capture = "reconnect"
    /\ vs' = [vs EXCEPT ![s].cap = release_capture(@), ![s].capture = "reopen"]
    /\ UNCHANGED <<lcvars, xvars, mgr, ai, source>>

\* lines 254-277 and 219: reopen, reset the failure count, go on looping
CaptureReopen(s) ==
    /\ vs[s].capture = "reopen"
    /\ vs' = [vs EXCEPT ![s].cap = open_capture(vs[s].camera_id),
                        ![s].consecutive_failures = 0,
                        ![s].capture = "loop"]
    /\ UNCHANGED <<lcvars, xvars, mgr, ai, source>>

(***************************************************************************)
(* VideoStream._processing_loop / _process_frame / ai_service.load_model   *)
(***************************************************************************)
\* line 300: the loop ends
ProcessingExit(s) ==
    /\ vs[s].processing = "loop"
    /\ ~vs[s].running
    /\ vs' = [vs EXCEPT ![s].processing = "done"]
    /\ UNCHANGED <<lcvars, xvars, mgr, ai, source>>

\* lines 304-311: frame = self.captured_frame (a cycle with no frame yet
\* sleeps and changes nothing); cfg_sampled: history, the snapshot in place
\* when the cycle began
ProcessingSample(s) ==
    /\ vs[s].processing = "loop"
    /\ vs[s].running
    /\ vs[s].captured_frame # 0
    /\ vs' = [vs EXCEPT ![s].frame = vs[s].captured_frame,
                        ![s].cfg_sampled = vs[s].config,
                        ![s].processing = "process"]
    /\ UNCHANGED <<lcvars, xvars, mgr, ai, source>>

\* variant: the CPU profile processes every cycle
calls_process_frame_always(v) == ~v.is_raw_stream

\* lines 314-330: does this cycle call _process_frame?
calls_process_frame(v) ==
    /\ ~v.is_raw_stream
    /\ \/ ~is_cpu_mode
       \/ (v.frame_counter + 1) % 2 = 0
       \/ v.last_processed_frame = 0

\* lines 314-327 for a cycle that does not call _process_frame
ProcessingBypass(s) ==
    /\ vs[s].processing = "process"
    /\ ~calls_process_frame(vs[s])
    /\ vs' = [vs EXCEPT
                ![s].frame_counter =
                    IF vs[s].is_raw_stream THEN @ ELSE (@ + 1) % 2,
                ![s].processed_frame =
                    IF vs[s].is_raw_stream
                    THEN vs[s].frame ELSE vs[s].last_processed_frame,
                ![s].processing = "publish"]
    /\ UNCHANGED <<lcvars, xvars, mgr, ai, source>>

\* lines 319-330, 347-354, 377 and load_model lines 102-135: _process_frame
\* reads its settings from self.camera_config, and the model is loaded when
\* it is not in self.models
ProcessingLoadModel(s) ==
    /\ vs[s].processing = "process"
    /\ calls_process_frame(vs[s])
    /\ vs[s].custom_model # "raw_stream"
    /\ vs' = [vs EXCEPT
                ![s].frame_counter = IF is_cpu_mode THEN (@ + 1) % 2 ELSE @,
                ![s].cycle_model = vs[s].custom_model,
                ![s].cfg_first = vs[s].config,
                ![s].processing = "load_model_return"]
    /\ ai' = [ai EXCEPT !.models = @ \cup {vs[s].custom_model}]
    /\ UNCHANGED <<lcvars, xvars, mgr, source>>

\* lines 319-330 and 347-358: _process_frame finds the raw selector in
\* self.camera_config and returns the frame as it is
ProcessingRawSelector(s) ==
    /\ vs[s].processing = "process"
    /\ calls_process_frame(vs[s])
    /\ vs[s].custom_model = "raw_stream"
    /\ vs' = [vs EXCEPT
                ![s].frame_counter = IF is_cpu_mode THEN (@ + 1) % 2 ELSE @,
                ![s].processed_frame = vs[s].frame,
                ![s].last_processed_frame =
                    IF is_cpu_mode /\ vs[s].frame_counter = 1
                    THEN vs[s].frame ELSE @,
                ![s].processing = "publish"]
    /\ UNCHANGED <<lcvars, xvars, mgr, ai, source>>

\* load_model line 166: return self.models[custom_model]; a KeyError when
\* the entry has been deleted since the test of line 102
ProcessingModelLookup(s) ==
    /\ vs[s].processing = "load_model_return"
    /\ vs' = [vs EXCEPT
                ![s].processing =
                    IF vs[s].cycle_model \in ai.models THEN "infer" ELSE "raised",
                ![s].raised =
                    IF vs[s].cycle_model \in ai.models THEN @
                    ELSE IF ai.cleared_by = vs[s].camera_id
                         THEN "KeyError_own_stop" ELSE "KeyError_other_stop"]
    /\ UNCHANGED <<lcvars, xvars, mgr, ai, source>>

\* ai_service.draw_detections and the later overlays: the annotated frame
draw_detections(f) == 0 - f

\* variant: the annotated frame is kept on the odd cycles instead
keeps_annotated_on_odd(v) == is_cpu_mode /\ v.frame_counter = 1

\* lines 321-324: last_processed_frame = processed_frame on the cycles with
\* an even frame_counter (the counter was incremented at line 320)
keeps_annotated(v) == is_cpu_mode /\ v.frame_counter = 0

\* lines 377-492 and 323-330: the detection and the annotation succeed;
\* line 451 reads the zones from self.camera_config
ProcessingInfer(s) ==
    /\ vs[s].processing = "infer"
    /\ vs' = [vs EXCEPT
                ![s].processed_frame = draw_detections(vs[s].frame),
                ![s].last_processed_frame =
                    IF keeps_annotated(vs[s])
                    THEN draw_detections(vs[s].frame) ELSE @,
                ![s].cfg_last = vs[s].config,
                ![s].processing = "publish"]
    /\ UNCHANGED <<lcvars, xvars, mgr, ai, source>>

\* line 377: detect_objects raises; neither _process_frame nor
\* _processing_loop catches, so the exception ends the thread
detection_raised(v) ==
    [v EXCEPT !.processing = "raised", !.raised = "detect_objects"]

ProcessingDetectionRaises(s) ==
    /\ vs[s].processing = "infer"
    /\ vs' = [vs EXCEPT ![s] = detection_raised(@)]
    /\ UNCHANGED <<lcvars, xvars, mgr, ai, source>>

\* lines 333-335 (the pacing sleep follows)
ProcessingPublish(s) ==
    /\ vs[s].processing = "publish"
    /\ vs' = [vs EXCEPT ![s].latest_frame = vs[s].processed_frame,
                        ![s].raw_frame = vs[s].frame,
                        ![s].cycle_model = "none",
                        ![s].cfg_first = 0,
                        ![s].cfg_last = 0,
                        ![s].processing = "loop"]
    /\ UNCHANGED <<lcvars, xvars, mgr, ai, source>>

\* what a caller is handed: the content, and whether the array is a copy
\* or the stored register itself
Handed(f, b) == [frame |-> f, buffer |-> IF f = 0 THEN "none" ELSE b]

\* variant: the stored array itself is returned
get_latest_frame_no_copy(s) == Handed(vs[s].latest_frame, "register")

\* VideoStream.get_latest_frame lines 133-136: self.latest_frame.copy()
get_latest_frame(s) == Handed(vs[s].latest_frame, "copy")

\* VideoStream.get_raw_frame lines 138-141: self.raw_frame.copy()
get_raw_frame(s) == Handed(vs[s].raw_frame, "copy")

(***************************************************************************)
(* VideoStream.stop                                                        *)
(***************************************************************************)
\* line 116: capture_thread.join(timeout=5)
StopJoinCapture(s) ==
    /\ vs[s].stop = "join_capture"
    /\ vs' = [vs EXCEPT ![s].stop = "join_processing"]
    /\ UNCHANGED <<lcvars, xvars, mgr, ai, source>>

\* line 118: processing_thread.join(timeout=5)
StopJoinProcessing(s) ==
    /\ vs[s].stop = "join_processing"
    /\ vs' = [vs EXCEPT ![s].stop = "release"]
    /\ UNCHANGED <<lcvars, xvars, mgr, ai, source>>

\* lines 119-124: release the handle, reset the line-crossing detector
StopRelease(s) ==
    /\ vs[s].stop = "release"
    /\ vs' = [vs EXCEPT ![s].cap = release_capture(@), ![s].stop = "clear"]
    /\ UNCHANGED <<lcvars, xvars, mgr, ai, source>>

\* lines 128-131 and clear_unused_models lines 168-178: on cuda:0 every
\* model is removed from the shared service
clear_unused_models(a, c) ==
    IF a.device = "cuda:0"
    THEN [a EXCEPT !.models = {}, !.cleared_by = c]
    ELSE a

StopClearModels(s) ==
    /\ vs[s].stop = "clear"
    /\ ai' = clear_unused_models(ai, vs[s].camera_id)
    /\ vs' = [vs EXCEPT ![s].stop = "done"]
    /\ UNCHANGED <<lcvars, xvars, mgr, source>>

(***************************************************************************)
(* VideoStreamManager                                                      *)
(***************************************************************************)
\* lines 45-47: VideoStream(...), self.streams[camera_id] = stream,
\* stream.start() (lines 102-110)
started_stream(c, m) ==
    [NewVideoStream(c, m) EXCEPT !.running = TRUE, !.capture = "open",
                                 !.config = 1,
                                 !.is_raw_stream = (m = "raw_stream"),
                                 !.processing = "loop"]

\* start_stream for a camera with no registered stream: lines 37-48
StartStream(c, m) ==
    /\ ~mgr.lock
    /\ mgr.call.op = "none"
    /\ mgr.streams[c] = 0
    /\ mgr.created < MaxStreams
    /\ vs' = [vs EXCEPT ![mgr.created + 1] = started_stream(c, m)]
    /\ mgr' = [mgr EXCEPT !.streams[c] = mgr.created + 1,
                          !.created = @ + 1]
    /\ UNCHANGED <<lcvars, xvars, ai, source>>

\* start_stream for a camera whose stream is registered: lines 37-39,
\* the lock is taken and self.stop_stream(camera_id) is called
StartStreamAgain(c, m) ==
    /\ ~mgr.lock
    /\ mgr.call.op = "none"
    /\ mgr.streams[c] # 0
    /\ mgr' = [mgr EXCEPT !.lock = TRUE,
                          !.call = [op |-> "start_stream", cam |-> c,
                                    pc |-> "stop_stream", model |-> m]]
    /\ UNCHANGED <<lcvars, xvars, ai, vs, source>>

\* stop_stream lines 52-54: "with self.lock" (threading.Lock, not
\* re-entrant), then stream.stop() line 114.  The caller is a request, or
\* start_stream at line 39.
StopStream(c) ==
    /\ ~mgr.lock
    /\ \/ mgr.call.op = "none"
       \/ mgr.call = [op |-> "start_stream", cam |-> c, pc |-> "stop_stream",
                      model |-> mgr.call.model]
    /\ mgr.streams[c] # 0
    /\ mgr' = [mgr EXCEPT !.lock = TRUE,
                          !.call = [op |-> "stop_stream", cam |-> c,
                                    pc |-> "stop", model |-> mgr.call.model]]
    /\ vs' = [vs EXCEPT ![mgr.streams[c]].running = FALSE,
                        ![mgr.streams[c]].stop = "join_capture"]
    /\ UNCHANGED <<lcvars, xvars, ai, source>>

\* stop_stream lines 55-56: del self.streams[camera_id], the lock is freed
StopStreamReturn(c) ==
    /\ mgr.call.op = "stop_stream"
    /\ mgr.call.cam = c
    /\ vs[mgr.streams[c]].stop = "done"
    /\ mgr' = [mgr EXCEPT !.streams[c] = 0, !.lock = FALSE, !.call = NoCall]
    /\ UNCHANGED <<lcvars, xvars, ai, vs, source>>

\* update_camera_config lines 72-76 and update_config lines 143-156:
\* self.camera_config = camera_config (the heatmap switch of lines 145-154
\* is not part of this model)
UpdateCameraConfig(c, m) ==
    /\ ~mgr.lock
    /\ mgr.call.op = "none"
    /\ mgr.streams[c] # 0
    /\ vs[mgr.streams[c]].config <= MaxUpdates
    /\ vs' = [vs EXCEPT ![mgr.streams[c]].config = @ + 1,
                        ![mgr.streams[c]].custom_model = m]
    /\ UNCHANGED <<lcvars, xvars, mgr, ai, source>>

(***************************************************************************)
(* The heatmap switch: update_config lines 145-154 beside the heatmap      *)
(* branch of _process_frame, lines 472-490.  heatmap_generator is "none"   *)
(* (None) or "generator"; update is the position of update_config.         *)
(***************************************************************************)
\* start_stream lines 37-48 with camera_config['heatmap_enabled'] = e
\* (VideoStream.__init__ lines 99-100)
StartHeatStream(c, e) ==
    /\ ~mgr.lock
    /\ mgr.call.op = "none"
    /\ mgr.streams[c] = 0
    /\ mgr.created < MaxStreams
    /\ vs' = [vs EXCEPT ![mgr.created + 1] =
                 [started_stream(c, "general_detection")
                    EXCEPT !.heatmap_enabled = e]]
    /\ mgr' = [mgr EXCEPT !.streams[c] = mgr.created + 1,
                          !.created = @ + 1]
    /\ UNCHANGED <<lcvars, xvars, ai, source>>

\* update_camera_config lines 72-76 (the lock is taken) and update_config
\* lines 146-148: the flag is set when it changes
UpdateHeatmapSwitch(c, e) ==
    /\ ~mgr.lock
    /\ mgr.call.op = "none"
    /\ mgr.streams[c] # 0
    /\ vs[mgr.streams[c]].config <= MaxUpdates
    /\ mgr' = [mgr EXCEPT !.lock = TRUE,
                          !.call = [op |-> "update_camera_config", cam |-> c,
                                    pc |-> "update_config",
                                    model |-> "general_detection"]]
    /\ vs' = [vs EXCEPT
                ![mgr.streams[c]].heatmap_enabled = e,
                ![mgr.streams[c]].update =
                    IF e = vs[mgr.streams[c]].heatmap_enabled THEN "same"
                    ELSE IF e THEN "enabled" ELSE "disabled"]
    /\ UNCHANGED <<lcvars, xvars, ai, source>>

\* update_config lines 149-156: the generator is dropped when the switch
\* was turned off, the configuration is replaced, the lock is freed
UpdateHeatmapReturn(c) ==
    /\ mgr.call.op = "update_camera_config"
    /\ mgr.call.cam = c
    /\ vs' = [vs EXCEPT
                ![mgr.streams[c]].heatmap_generator =
                    IF vs[mgr.streams[c]].update = "disabled" THEN "none" ELSE @,
                ![mgr.streams[c]].config = @ + 1,
                ![mgr.streams[c]].update = "idle"]
    /\ mgr' = [mgr EXCEPT !.lock = FALSE, !.call = NoCall]
    /\ UNCHANGED <<lcvars, xvars, ai, source>>

\* _processing_loop lines 300-330 and _process_frame lines 347-470: the
\* cycle samples the frame, detects and annotates (every cycle on cuda:0)
HeatCycleDetect(s) ==
    /\ vs[s].processing = "loop"
    /\ vs[s].running
    /\ vs[s].captured_frame # 0
    /\ ~is_cpu_mode
    /\ vs' = [vs EXCEPT ![s].frame = vs[s].captured_frame,
                        ![s].cfg_sampled = vs[s].config,
                        ![s].processed_frame = draw_detections(vs[s].captured_frame),
                        ![s].processing = "heatmap"]
    /\ UNCHANGED <<lcvars, xvars, mgr, ai, source>>

\* line 473: if self.heatmap_enabled
HeatmapTest(s) ==
    /\ vs[s].processing = "heatmap"
    /\ vs' = [vs EXCEPT ![s].processing =
                 IF vs[s].heatmap_enabled THEN "heatmap_init" ELSE "publish"]
    /\ UNCHANGED <<lcvars, xvars, mgr, ai, source>>

\* lines 475-480: the generator is created when there is none
HeatmapCreate(s) ==
    /\ vs[s].processing = "heatmap_init"
    /\ vs' = [vs EXCEPT ![s].heatmap_generator = "generator",
                        ![s].processing = "heatmap_update"]
    /\ UNCHANGED <<lcvars, xvars, mgr, ai, source>>

\* a method called on self.heatmap_generator: on None the AttributeError
\* is caught nowhere and ends the thread
call_generator(v, method, next) ==
    IF v.heatmap_generator = "none"
    THEN [v EXCEPT !.processing = "raised", !.raised = method]
    ELSE [v EXCEPT !.processing = next]

\* line 483: self.heatmap_generator.update(all_detections)
HeatmapCallUpdate(s) ==
    /\ vs[s].processing = "heatmap_update"
    /\ vs' = [vs EXCEPT ![s] = call_generator(@, "update", "heatmap_overlay")]
    /\ UNCHANGED <<lcvars, xvars, mgr, ai, source>>

\* lines 486-492: self.heatmap_generator.get_heatmap_overlay(...)
HeatmapCallOverlay(s) ==
    /\ vs[s].processing = "heatmap_overlay"
    /\ vs' = [vs EXCEPT ![s] = call_generator(@, "get_heatmap_overlay", "publish")]
    /\ UNCHANGED <<lcvars, xvars, mgr, ai, source>>

HeatToggleNext ==
    \/ \E c \in Cams, e \in BOOLEAN : StartHeatStream(c, e)
    \/ \E c \in Cams, e \in BOOLEAN : UpdateHeatmapSwitch(c, e)
    \/ \E c \in Cams : UpdateHeatmapReturn(c)
    \/ \E s \in Streams : CaptureOpen(s)
    \/ \E s \in Streams : CaptureRead(s)
    \/ \E s \in Streams : HeatCycleDetect(s)
    \/ \E s \in Streams : HeatmapTest(s)
    \/ \E s \in Streams : HeatmapCreate(s)
    \/ \E s \in Streams : HeatmapCallUpdate(s)
    \/ \E s \in Streams : HeatmapCallOverlay(s)
    \/ \E s \in Streams : ProcessingPublish(s)

(***************************************************************************)
(* Violations: _process_frame lines 389-403 and _handle_violation.         *)
(***************************************************************************)
\* line 609: camera_config.get('detection_interval', 5); the streams of
\* the tests are configured with an interval of 2 s
detection_interval == 2

\* variant: the key is the class alone
detection_key_class(violation) == violation.object_class

\* line 606: f"{violation['object_class']}_{violation['roi_name']}"
detection_key(violation) ==
    violation.object_class \o "_" \o violation.roi_name

\* lines 611-614: the violation arrives too early after the last accepted
\* one of its key
rate_limited(v, key, current_time) ==
    /\ key \in DOMAIN v.last_detection_time
    /\ current_time - v.last_detection_time[key] < detection_interval

\* line 616: self.last_detection_time[detection_key] = current_time
set_time(d, key, current_time) ==
    [k \in (DOMAIN d) \cup {key} |-> IF k = key THEN current_time ELSE d[k]]

Row(violation, current_time) ==
    [object_class |-> violation.object_class, roi_name |-> violation.roi_name,
     time |-> current_time]

\* _handle_violation lines 603-646 (email_alerts_enabled with recipients);
\* db: "ok", or "error" when the commit of line 634 raises - the exception
\* is caught nowhere and ends the processing thread
handle_violation(v, violation, current_time, db) ==
    IF rate_limited(v, detection_key(violation), current_time)
    THEN [v EXCEPT !.violation = [violation EXCEPT !.current_time = current_time,
                                                  !.dropped = TRUE]]
    ELSE IF db = "error"
    THEN [v EXCEPT
            !.last_detection_time =
                set_time(@, detection_key(violation), current_time),
            !.violation = [violation EXCEPT !.current_time = current_time],
            !.processing = "raised", !.raised = "commit"]
    ELSE [v EXCEPT
            !.last_detection_time =
                set_time(@, detection_key(violation), current_time),
            !.detections_saved = @ \cup {Row(violation, current_time)},
            !.alerts_sent = @ \cup {Row(violation, current_time)},
            !.violation = [violation EXCEPT !.current_time = current_time]]

\* the fire and smoke detections of the tests: <<class, location of the
\* configuration in place>>
FireSmokeDetections ==
    { <<"fire", "Gate">>, <<"smoke", "Gate">>, <<"fire", "Yard">> }

\* _process_frame lines 389-403 for one fire or smoke detection; roi_name
\* is camera_config['location']; the clock does not run backwards
HandleViolation(s, object_class, roi_name, current_time, db) ==
    /\ vs[s].running
    /\ vs[s].processing = "loop"
    /\ current_time >= vs[s].violation.current_time
    /\ vs' = [vs EXCEPT ![s] =
                 handle_violation(@, [NoViolation EXCEPT
                                         !.object_class = object_class,
                                         !.roi_name = roi_name],
                                  current_time, db)]
    /\ UNCHANGED <<lcvars, xvars, mgr, ai, source>>

ViolationNext ==
    \/ \E c \in Cams : StartStream(c, "general_detection")
    \/ \E s \in Streams, d \in FireSmokeDetections,
          current_time \in 0 .. MaxClock, db \in {"ok", "error"} :
            HandleViolation(s, d[1], d[2], current_time, db)

CaptureStep(s) ==
    \/ CaptureOpen(s)
    \/ CaptureExit(s)
    \/ CaptureRead(s)

CaptureFailureStep(s) ==
    \/ CaptureReadFails(s)
    \/ CaptureReconnect(s)
    \/ CaptureReopen(s)

ProcessingStep(s) ==
    \/ ProcessingExit(s)
    \/ ProcessingSample(s)
    \/ ProcessingBypass(s)
    \/ ProcessingLoadModel(s)
    \/ ProcessingModelLookup(s)
    \/ ProcessingInfer(s)
    \/ ProcessingDetectionRaises(s)
    \/ ProcessingPublish(s)

StopStep(s) ==
    \/ StopJoinCapture(s)
    \/ StopJoinProcessing(s)
    \/ StopRelease(s)
    \/ StopClearModels(s)

(***************************************************************************)
(*                                                                         *)
(* Part III: the RTSP monitoring session (routers/productivity.py)         *)
(*                                                                         *)
(***************************************************************************)
\* start_rtsp_monitoring lines 1134-1157, before any session exists.  The
\* session has one ROI tracker (is_red .. productive_time).  now: the time
\* since session['start_time']; thread_start: the same clock when the
\* thread took its own start_time (line 1750); stop: the position of
\* stop_rtsp_monitoring; stops: history, the stop requests so far.
NoSession ==
    [exists |-> FALSE, is_active |-> FALSE, stop_requested |-> FALSE,
     thread |-> "none", cap |-> "none", consecutive_failures |-> 0,
     now |-> 0, thread_start |-> 0, stop |-> "idle", stops |-> 0,
     is_red |-> TRUE, downtime_start |-> 0, downtime_periods |-> <<>>,
     total_downtime |-> 0, productive_time |-> 0]

RtspInit == rtsp = NoSession

\* lines 1122-1123 and 1333: the session is reported as active
reported_active(r) == r.exists /\ r.is_active /\ ~r.stop_requested

\* start_rtsp_monitoring lines 1108-1170 (with an active session of the
\* same URL the call returns that session and changes nothing)
StartRtspMonitoring ==
    /\ ~rtsp.exists
    /\ rtsp' = [NoSession EXCEPT !.exists = TRUE, !.is_active = TRUE,
                                 !.thread = "open"]
    /\ UNCHANGED <<lcvars, vsvars, last_detections, zone, client, roi, heatmap>>

\* process_rtsp_stream lines 1728-1742: the stream opens
RtspOpen ==
    /\ rtsp.thread = "open"
    /\ rtsp' = [rtsp EXCEPT !.cap = "open", !.thread = "loop",
                            !.thread_start = rtsp.now]
    /\ UNCHANGED <<lcvars, vsvars, last_detections, zone, client, roi, heatmap>>

\* lines 1739-1742: the stream does not open
RtspOpenFails ==
    /\ rtsp.thread = "open"
    /\ rtsp' = [rtsp EXCEPT !.cap = "unopened", !.is_active = FALSE,
                            !.thread = "done"]
    /\ UNCHANGED <<lcvars, vsvars, last_detections, zone, client, roi, heatmap>>

\* lines 1784-1796: a successful read
RtspRead ==
    /\ rtsp.thread = "loop"
    /\ rtsp.is_active /\ ~rtsp.stop_requested
    /\ rtsp.consecutive_failures # 0
    /\ rtsp' = [rtsp EXCEPT !.consecutive_failures = 0]
    /\ UNCHANGED <<lcvars, vsvars, last_detections, zone, client, roi, heatmap>>

\* lines 1784-1793 and 1968-1969: a failed read; at 100 in a row the
\* loop breaks and the capture is released
RtspReadFails ==
    /\ rtsp.thread = "loop"
    /\ rtsp.is_active /\ ~rtsp.stop_requested
    /\ rtsp' = [rtsp EXCEPT
                  !.consecutive_failures = @ + 1,
                  !.thread = IF rtsp.consecutive_failures + 1
                                  >= rtsp_max_consecutive_failures
                             THEN "done" ELSE "loop",
                  !.cap = IF rtsp.consecutive_failures + 1
                               >= rtsp_max_consecutive_failures
                          THEN "released" ELSE @]
    /\ UNCHANGED <<lcvars, vsvars, last_detections, zone, client, roi, heatmap>>

\* lines 1784 and 1968-1969: the loop ends on a stop request
RtspLoopExit ==
    /\ rtsp.thread = "loop"
    /\ ~(rtsp.is_active /\ ~rtsp.stop_requested)
    /\ rtsp' = [rtsp EXCEPT !.cap = "released", !.thread = "done"]
    /\ UNCHANGED <<lcvars, vsvars, last_detections, zone, client, roi, heatmap>>

\* stop_rtsp_monitoring lines 1179-1186
StopRtspMonitoring ==
    /\ rtsp.exists
    /\ ~rtsp.stop_requested
    /\ rtsp' = [rtsp EXCEPT !.stop_requested = TRUE, !.is_active = FALSE]
    /\ UNCHANGED <<lcvars, vsvars, last_detections, zone, client, roi, heatmap>>

(***************************************************************************)
(* Downtime accounting of the ROI tracker                                  *)
(***************************************************************************)
\* time passes
RtspTick ==
    /\ rtsp.exists
    /\ rtsp.now < MaxTime
    /\ rtsp' = [rtsp EXCEPT !.now = @ + 1]
    /\ UNCHANGED <<lcvars, vsvars, last_detections, zone, client, roi, heatmap>>

Period(start, end) == [start |-> start, end |-> end, duration |-> end - start]

\* process_rtsp_stream lines 1919-1958 for one tracker: the state and the
\* timing after a frame with or without steel in the ROI
track_steel(r, steel_detected, elapsed_time) ==
    IF steel_detected
    THEN IF r.is_red
         THEN [r EXCEPT
                 !.downtime_periods =
                     Append(@, Period(r.downtime_start, elapsed_time)),
                 !.total_downtime = @ + (elapsed_time - r.downtime_start),
                 !.is_red = FALSE]
         ELSE r
    ELSE IF ~r.is_red
         THEN [r EXCEPT !.downtime_start = elapsed_time, !.is_red = TRUE]
         ELSE r

\* process_rtsp_stream lines 1784-1958: a frame is read and processed;
\* elapsed_time is taken from the thread's own start_time (line 1826)
RtspFrame(steel_detected) ==
    /\ rtsp.thread = "loop"
    /\ rtsp.is_active /\ ~rtsp.stop_requested
    /\ Len(rtsp.downtime_periods) < MaxPeriods
    /\ rtsp' = [track_steel(rtsp, steel_detected, rtsp.now - rtsp.thread_start)
                  EXCEPT !.consecutive_failures = 0]
    /\ UNCHANGED <<lcvars, vsvars, last_detections, zone, client, roi, heatmap>>

\* stop_rtsp_monitoring lines 1179-1189: the flags are set and the handler
\* sleeps 1.5 s (one unit of the clock)
StopRtspRequest ==
    /\ rtsp.exists
    /\ rtsp.stop = "idle"
    /\ rtsp.stops < MaxStops
    /\ rtsp.now < MaxTime
    /\ rtsp' = [rtsp EXCEPT !.stop_requested = TRUE, !.is_active = FALSE,
                            !.stop = "sleep", !.stops = @ + 1,
                            !.now = @ + 1]
    /\ UNCHANGED <<lcvars, vsvars, last_detections, zone, client, roi, heatmap>>

\* stop_rtsp_monitoring lines 1192-1206 for one tracker
final_statistics(r, elapsed_time) ==
    [r EXCEPT
       !.downtime_periods =
           IF r.is_red THEN Append(@, Period(r.downtime_start, elapsed_time))
           ELSE @,
       !.total_downtime =
           IF r.is_red THEN @ + (elapsed_time - r.downtime_start) ELSE @,
       !.productive_time =
           elapsed_time - (IF r.is_red
                           THEN r.total_downtime + (elapsed_time - r.downtime_start)
                           ELSE r.total_downtime)]

\* stop_rtsp_monitoring lines 1191-1286: the final statistics, the report
StopRtspReport ==
    /\ rtsp.stop = "sleep"
    /\ rtsp' = [final_statistics(rtsp, rtsp.now) EXCEPT !.stop = "idle"]
    /\ UNCHANGED <<lcvars, vsvars, last_detections, zone, client, roi, heatmap>>

DowntimeNext ==
    \/ StartRtspMonitoring
    \/ RtspOpen
    \/ RtspTick
    \/ \E steel_detected \in BOOLEAN : RtspFrame(steel_detected)
    \/ RtspLoopExit
    \/ StopRtspRequest
    \/ StopRtspReport

RtspNext ==
    \/ StartRtspMonitoring
    \/ RtspOpen
    \/ RtspOpenFails
    \/ RtspRead
    \/ RtspReadFails
    \/ RtspLoopExit
    \/ StopRtspMonitoring

(***************************************************************************)
(* A caller of get_frame / get_raw_frame                                   *)
(***************************************************************************)
NoClient ==
    [camera_id |-> 0, kind |-> "none", frame |-> 0, buffer |-> "none",
     modified |-> FALSE]

ClientInit == client = NoClient

\* the content of an array after the caller has written into it
Modified(f) == IF f > 0 THEN f + MaxFrames ELSE f - MaxFrames

\* VideoStreamManager.get_frame lines 58-63
GetFrame(c) ==
    /\ ~mgr.lock
    /\ client.camera_id = 0
    /\ \E h \in {IF mgr.streams[c] # 0 THEN get_latest_frame(mgr.streams[c])
                  ELSE Handed(0, "none")} :
          client' = [camera_id |-> c, kind |-> "annotated", frame |-> h.frame,
                     buffer |-> h.buffer, modified |-> FALSE]
    /\ UNCHANGED <<lcvars, vsvars, last_detections, zone, rtsp, roi, heatmap>>

\* VideoStreamManager.get_raw_frame lines 65-70
GetRawFrame(c) ==
    /\ ~mgr.lock
    /\ client.camera_id = 0
    /\ \E h \in {IF mgr.streams[c] # 0 THEN get_raw_frame(mgr.streams[c])
                  ELSE Handed(0, "none")} :
          client' = [camera_id |-> c, kind |-> "raw", frame |-> h.frame,
                     buffer |-> h.buffer, modified |-> FALSE]
    /\ UNCHANGED <<lcvars, vsvars, last_detections, zone, rtsp, roi, heatmap>>

\* the caller writes into the array it was handed; the write lands in the
\* stream's register when the array is the register
ClientModifies ==
    /\ client.buffer # "none"
    /\ ~client.modified
    /\ client' = [client EXCEPT !.frame = Modified(@), !.modified = TRUE]
    /\ vs' = IF client.buffer = "register"
             THEN [s \in Streams |->
                     IF s = mgr.streams[client.camera_id]
                     THEN [vs[s] EXCEPT !.latest_frame = Modified(@)]
                     ELSE vs[s]]
             ELSE vs
    /\ UNCHANGED <<lcvars, mgr, ai, source, last_detections, zone, rtsp, roi, heatmap>>

\* the caller is done with what it was handed
ClientReturns ==
    /\ client.camera_id # 0
    /\ client' = NoClient
    /\ UNCHANGED <<lcvars, vsvars, last_detections, zone, rtsp, roi, heatmap>>


(***************************************************************************)
(*                                                                         *)
(* Part IV: the ROI test (ai_service.py) and the line test on its own      *)
(*                                                                         *)
(* Box corners and polygon vertices are integers; the center of a box is   *)
(* (x1 + x2) / 2, so the test is made on coordinates multiplied by 2.      *)
(***************************************************************************)
RoiInit == roi = [op |-> "none", arg |-> <<>>, result |-> FALSE]

\* variant: the top-left corner of the box, times 2
bbox_corner2(bbox) == <<bbox[1] + bbox[1], bbox[2] + bbox[2]>>

\* check_roi_violation lines 347-350: the center of the box, times 2
bbox_center2(bbox) == <<bbox[1] + bbox[3], bbox[2] + bbox[4]>>

Twice(v) == <<v[1] + v[1], v[2] + v[2]>>

\* the edges of the ring that Polygon(coords) closes: vertex k to k + 1
ring_from(coords, k) == Twice(coords[k])
ring_to(coords, k) == Twice(coords[(k % Len(coords)) + 1])

\* the point lies on the segment a-b
on_segment(pt, a, b) ==
    /\ (b[1] - a[1]) * (pt[2] - a[2]) = (b[2] - a[2]) * (pt[1] - a[1])
    /\ Min(a[1], b[1]) <= pt[1] /\ pt[1] <= a[1] + b[1] - Min(a[1], b[1])
    /\ Min(a[2], b[2]) <= pt[2] /\ pt[2] <= a[2] + b[2] - Min(a[2], b[2])

\* the ray from pt towards +x crosses the edge a-b
ray_crosses(pt, a, b) ==
    /\ (a[2] > pt[2]) # (b[2] > pt[2])
    /\ IF b[2] > a[2]
       THEN (a[1] - pt[1]) * (b[2] - a[2]) - (b[1] - a[1]) * (a[2] - pt[2]) > 0
       ELSE (a[1] - pt[1]) * (b[2] - a[2]) - (b[1] - a[1]) * (a[2] - pt[2]) < 0

\* shapely Polygon.contains(Point): the point is in the interior, located
\* by ray crossing on the ring as given (no validity test is made)
polygon_contains(pt, coords) ==
    /\ \A k \in 1 .. Len(coords) :
          ~on_segment(pt, ring_from(coords, k), ring_to(coords, k))
    /\ Cardinality({k \in 1 .. Len(coords) :
                      ray_crosses(pt, ring_from(coords, k), ring_to(coords, k))})
          % 2 = 1

\* is_point_in_roi lines 337-344: Polygon(roi_coords) raises for one or two
\* vertices, the except clause answers False; no vertex is an empty polygon
is_point_in_roi(pt, coords) ==
    IF Len(coords) < 3 THEN FALSE ELSE polygon_contains(pt, coords)

\* check_roi_violation lines 346-351
check_roi_violation(bbox, coords) == is_point_in_roi(bbox_center2(bbox), coords)

\* vertex lists: simple polygons with a partition into convex pieces
\* (counter-clockwise), and lists that form no valid polygon
SimpleRois ==
    { [coords |-> << <<0, 0>>, <<4, 0>>, <<0, 4>> >>, valid |-> TRUE,
       pieces |-> { << <<0, 0>>, <<4, 0>>, <<0, 4>> >> }],
      [coords |-> << <<1, 1>>, <<3, 1>>, <<3, 3>>, <<1, 3>> >>, valid |-> TRUE,
       pieces |-> { << <<1, 1>>, <<3, 1>>, <<3, 3>>, <<1, 3>> >> }],
      [coords |-> << <<1, 1>>, <<1, 3>>, <<3, 3>>, <<3, 1>> >>, valid |-> TRUE,
       pieces |-> { << <<1, 1>>, <<3, 1>>, <<3, 3>>, <<1, 3>> >> }],
      [coords |-> << <<0, 0>>, <<4, 0>>, <<4, 2>>, <<2, 2>>, <<2, 4>>, <<0, 4>> >>,
       valid |-> TRUE,
       pieces |-> { << <<0, 0>>, <<4, 0>>, <<4, 2>>, <<0, 2>> >>,
                    << <<0, 2>>, <<2, 2>>, <<2, 4>>, <<0, 4>> >> }] }

MalformedRois ==
    { [coords |-> <<>>, valid |-> FALSE, pieces |-> {}],
      [coords |-> << <<1, 1>> >>, valid |-> FALSE, pieces |-> {}],
      [coords |-> << <<1, 1>>, <<3, 3>> >>, valid |-> FALSE, pieces |-> {}],
      [coords |-> << <<0, 0>>, <<2, 2>>, <<4, 4>> >>, valid |-> FALSE,
       pieces |-> {}],
      [coords |-> << <<0, 0>>, <<4, 4>>, <<4, 0>>, <<0, 4>> >>, valid |-> FALSE,
       pieces |-> {}] }

Rois == SimpleRois \cup MalformedRois

Boxes ==
    { <<x, y, x + w, y + h>> : x \in 0 .. GridMax - 1, y \in 0 .. GridMax - 1,
                               w \in {0, 1}, h \in {0, 1} }

\* one call of check_roi_violation (one test per run)
CheckRoiViolation(bbox, r) ==
    /\ roi.op = "none"
    /\ roi' = [op |-> "check_roi_violation", arg |-> <<bbox, r>>,
               result |-> check_roi_violation(bbox, r.coords)]
    /\ UNCHANGED <<lcvars, vsvars, last_detections, zone, rtsp, client, heatmap>>

GridPoints == { <<x, y>> : x \in {0, GridMax \div 2, GridMax}, y \in {0, GridMax} }

\* one call of _line_intersection: the step p1-p2 of a track against the
\* line p3-p4
LineIntersection(p1, p2, p3, p4) ==
    /\ roi.op = "none"
    /\ roi' = [op |-> "line_intersection", arg |-> <<p1, p2, p3, p4>>,
               result |-> line_intersection(p1, p2, p3, p4).crossed]
    /\ UNCHANGED <<lcvars, vsvars, last_detections, zone, rtsp, client, heatmap>>

RoiNext ==
    \/ \E bbox \in Boxes, r \in Rois : CheckRoiViolation(bbox, r)
    \/ \E p1 \in GridPoints, p2 \in GridPoints, p3 \in GridPoints, p4 \in GridPoints :
          LineIntersection(p1, p2, p3, p4)


(***************************************************************************)
(*                                                                         *)
(* Part V: HeatmapGenerator (heatmap_service.py)                           *)
(*                                                                         *)
(* The field is a float32 array.  A cell is counted in steps of the        *)
(* smallest positive float32 (2^-149): in that range every value is a      *)
(* whole number of steps and a product is rounded to the nearest whole     *)
(* number, ties to even.                                                   *)
(***************************************************************************)
Cells == {1, 2}

\* HeatmapGenerator.__init__ lines 34-37: np.zeros, frame_count = 0
\* (previous: history, the field before the last update)
HeatmapInit ==
    heatmap = [cells |-> [i \in Cells |-> 0], previous |-> [i \in Cells |-> 0],
               frame_count |-> 0, radii |-> {}]

\* a field left by earlier detections
HeatmapAnyField ==
    heatmap \in [cells : [Cells -> 0 .. MaxCell],
                 previous : {[i \in Cells |-> 0]}, frame_count : {0},
                 radii : {{}}]

\* variant: the cell is left as it is
decay_none(k) == k

\* line 48: self.heatmap *= self.decay_rate, for one cell
decay(k) ==
    IF 2 * ((k * decay_rate_num) % decay_rate_den) > decay_rate_den
    THEN ((k * decay_rate_num) \div decay_rate_den) + 1
    ELSE IF 2 * ((k * decay_rate_num) % decay_rate_den) < decay_rate_den
         THEN (k * decay_rate_num) \div decay_rate_den
         ELSE ((k * decay_rate_num) \div decay_rate_den)
                + (((k * decay_rate_num) \div decay_rate_den) % 2)

\* HeatmapGenerator.update lines 40-84 with an empty detection list
HeatmapUpdateEmpty ==
    /\ heatmap.frame_count < MaxHeatUpdates
    /\ heatmap' = [cells |-> [i \in Cells |-> decay(heatmap.cells[i])],
                   previous |-> heatmap.cells,
                   frame_count |-> heatmap.frame_count + 1,
                   radii |-> {}]
    /\ UNCHANGED <<lcvars, vsvars, last_detections, zone, rtsp, client, roi>>

HeatmapNext == HeatmapUpdateEmpty

(***************************************************************************)
(* update with detections.  Here a cell is counted in thousandths, and two *)
(* cells of the field of a 640 x 480 frame are followed: (100, 100) and    *)
(* (150, 100).  Every cell of the array is updated by the same expression, *)
(* from its own value and its own distance to the center of the blob.      *)
(***************************************************************************)
frame_width == 640
frame_height == 480
max_intensity == 10000
min_radius == 20
max_radius == 100

CellAt == <<  <<100, 100>>, <<150, 100>>  >>

\* line 48 for a cell counted in thousandths: the product with 0.98, taken
\* down to a whole number of thousandths
decay_thousandths(k) == (98 * k) \div 100

\* int(v * 0.6): the product is truncated toward zero
int_six_tenths(v) ==
    IF v >= 0 THEN (6 * v) \div 10 ELSE 0 - ((6 * (0 - v)) \div 10)

\* variant: the radius is not clamped
blob_radius_unclamped(bbox) ==
    int_six_tenths(IF bbox[3] - bbox[1] > bbox[4] - bbox[2]
                   THEN bbox[3] - bbox[1] ELSE bbox[4] - bbox[2])

\* lines 68-71: radius = int(max(bbox_width, bbox_height) * 0.6), clamped
blob_radius(bbox) ==
    IF blob_radius_unclamped(bbox) > max_radius THEN max_radius
    ELSE IF blob_radius_unclamped(bbox) < min_radius THEN min_radius
    ELSE blob_radius_unclamped(bbox)

\* lines 58-64: the center of the box, moved into the frame
blob_center(bbox) ==
    << IF Center(bbox)[1] < 0 THEN 0
       ELSE Min(Center(bbox)[1], frame_width - 1),
       IF Center(bbox)[2] < 0 THEN 0
       ELSE Min(Center(bbox)[2], frame_height - 1) >>

\* exp(-k/4) in thousandths, k = 0 .. 8
exp_quarters == <<1000, 779, 607, 472, 368, 287, 223, 174, 135>>

\* lines 75-79: gaussian * mask at squared distance d2 from the center,
\* exp(-d2 / (2 * (radius/2)^2)) inside the disc of the radius and 0
\* outside, in thousandths (the exponent is taken down to a quarter)
gaussian_mask(d2, radius) ==
    IF d2 > radius * radius THEN 0
    ELSE exp_quarters[((8 * d2) \div (radius * radius)) + 1]

\* variant: the sum is not clipped
clip_none(v) == v

\* line 82: np.clip(., 0, 10.0)
clip(v) == IF v < 0 THEN 0 ELSE IF v > max_intensity THEN max_intensity ELSE v

SqDist(a, b) == (a[1] - b[1]) * (a[1] - b[1]) + (a[2] - b[2]) * (a[2] - b[2])

\* lines 51-82 for one detection: the cells after its blob is added
add_blob(cells, bbox) ==
    [i \in Cells |->
        clip(cells[i]
             + (gaussian_mask(SqDist(CellAt[i], blob_center(bbox)),
                              blob_radius(bbox)) \div 2))]

\* lines 51-82: for detection in detections (a box that has not 4
\* coordinates is skipped, lines 53-54)
RECURSIVE add_blobs(_, _)
add_blobs(cells, detections) ==
    IF detections = <<>> THEN cells
    ELSE add_blobs(IF Len(Head(detections).bbox) # 4 THEN cells
                   ELSE add_blob(cells, Head(detections).bbox),
                   Tail(detections))

\* the boxes of the tests: small, medium, larger than the frame, with the
\* corners exchanged, centered outside the frame, and with 3 coordinates
HeatBoxes ==
    { <<95, 95, 105, 105>>, <<50, 50, 150, 150>>, <<-900, -900, 1100, 1100>>,
      <<105, 105, 95, 95>>, <<700, 0, 800, 40>>, <<90, 70, 110>> }

HeatDetection(bbox) == [track_id |-> NoTrackId, bbox |-> bbox, class |-> "person"]

\* detection lists: n times the same box, and every pair of boxes
HeatDetectionLists ==
    { [i \in 1 .. n |-> HeatDetection(b)] : b \in HeatBoxes, n \in {1, MaxBlobs} }
      \cup { <<HeatDetection(a), HeatDetection(b)>> : a \in HeatBoxes, b \in HeatBoxes }

\* HeatmapGenerator.update lines 40-84 (the decay is applied first)
HeatmapUpdate(detections) ==
    /\ heatmap.frame_count < MaxBlobUpdates
    /\ heatmap' =
          [cells |-> add_blobs([i \in Cells |-> decay_thousandths(heatmap.cells[i])],
                               detections),
           previous |-> heatmap.cells,
           frame_count |-> heatmap.frame_count + 1,
           radii |-> { blob_radius(detections[i].bbox) :
                         i \in { j \in DOMAIN detections :
                                   Len(detections[j].bbox) = 4 } }]
    /\ last_detections' = detections
    /\ UNCHANGED <<lcvars, vsvars, zone, rtsp, client, roi>>

HeatBlobsNext == \E detections \in HeatDetectionLists : HeatmapUpdate(detections)


\* the parts that a specification leaves at rest
(***************************************************************************)
(*                                                                         *)
(* Part VII: the counters of a line-crossing zone                          *)
(* (VideoStream._process_frame lines 447-470, _handle_line_crossing,       *)
(* routers/line_crossing.py reset_line_crossing_count)                     *)
(*                                                                         *)
(***************************************************************************)

\* models.LineCrossing (count_in, count_out default 0) and the entry of
\* camera_config['line_crossings'] built from it.  keys: history, the
\* <<method, key>> pairs of the zone configuration that methods of
\* LineCrossingDetector have looked up; handled, resets: history.
ZoneInit ==
    zone = [count_in |-> 0, count_out |-> 0, cfg_in |-> 0, cfg_out |-> 0,
            label |-> <<>>, keys |-> {}, handled |-> 0, resets |-> 0,
            last |-> "none"]

InDirections == {"up_to_down", "left_to_right", "in"}
OutDirections == {"down_to_up", "right_to_left", "out"}

\* variant: every direction counts as in and as out
count_event_both(z, direction) ==
    [z EXCEPT !.count_in = @ + 1, !.count_out = @ + 1]

\* _handle_line_crossing lines 556-563
count_event(z, direction) ==
    IF direction \in InDirections THEN [z EXCEPT !.count_in = @ + 1]
    ELSE IF direction \in OutDirections THEN [z EXCEPT !.count_out = @ + 1]
    ELSE z

\* _handle_line_crossing lines 569-576: the counts of the row are copied
\* into the entry of the in-memory configuration
copy_counts(z) == [z EXCEPT !.cfg_in = z.count_in, !.cfg_out = z.count_out]

\* _handle_line_crossing for one event; db: "ok", or "error" when the
\* session raises (the except of lines 599-601 logs and rolls back)
handle_line_crossing(z, crossing_event, lines, db) ==
    IF ~\E i \in DOMAIN lines : lines[i].id = crossing_event.line_id THEN z
    ELSE IF db = "error" THEN z
    ELSE [copy_counts(count_event(z, crossing_event.direction))
            EXCEPT !.handled = @ + 1]

\* _process_frame lines 458-464: for crossing_event in crossing_events
RECURSIVE handle_events(_, _, _, _)
handle_events(z, events, lines, db) ==
    IF events = <<>> THEN z
    ELSE handle_events(handle_line_crossing(z, Head(events), lines, db),
                       Tail(events), lines, db)

\* the keys of a zone configuration that check_line_crossing looks up
\* (lines 93-127, 366)
check_line_crossing_keys ==
    { <<"check_line_crossing", k>> :
        k \in {"is_active", "id", "line_coordinates", "name", "count_direction"} }

\* the keys that draw_line_crossings looks up (lines 399-423)
draw_line_crossings_keys ==
    { <<"draw_line_crossings", k>> :
        k \in {"is_active", "line_coordinates", "color", "name", "id",
               "count_in", "count_out"} }

\* draw_line_crossings lines 421-429: the label of the zone
draw_line_crossings(z) ==
    [z EXCEPT !.label = <<z.cfg_in, z.cfg_out>>,
              !.keys = @ \cup draw_line_crossings_keys]

\* _process_frame lines 447-470 for one frame: check_line_crossing, the
\* handler for each returned event, then the zones drawn on the frame
ProcessFrameCrossings(detections, db) ==
    /\ calls < MaxCounterCalls
    /\ line_crossings # <<>>
    /\ \E r \in {check_line_crossing(object_trajectories, crossed_objects,
                                     detections, line_crossings)} :
        /\ object_trajectories' = r.traj
        /\ crossed_objects' = r.crossed
        /\ crossing_events' = r.events
        /\ calls' = calls + 1
        /\ accepted' = accepted \o stamp(r.events, r.traj, calls + 1)
        /\ zone' = [draw_line_crossings(
                        handle_events([zone EXCEPT !.keys =
                                           @ \cup check_line_crossing_keys],
                                      r.events, line_crossings, db))
                      EXCEPT !.last = "frame"]
    /\ UNCHANGED <<line_crossings, vsvars, last_detections, rtsp, client, roi, heatmap>>

\* variant: the reset clears count_in only
reset_counts_in_only(z) == [z EXCEPT !.count_in = 0]

\* reset_line_crossing_count lines 234-236
reset_counts(z) == [z EXCEPT !.count_in = 0, !.count_out = 0]

\* POST /api/line-crossing/{line_id}/reset-count, with the configuration
\* reloaded from the row (_reload_camera_config)
ResetLineCrossingCount ==
    /\ zone.resets < MaxResets
    /\ zone' = [copy_counts(reset_counts(zone))
                  EXCEPT !.resets = @ + 1, !.last = "reset"]
    /\ UNCHANGED <<lcvars, vsvars, last_detections, rtsp, client, roi, heatmap>>

CountersNext ==
    \/ \E t \in Tracks, p \in Points, db \in {"ok", "error"} :
          ProcessFrameCrossings(<<Detection(t, p)>>, db)
    \/ ResetLineCrossingCount

(***************************************************************************)
(* Trajectory tests: a track that walks along y = 300, away from the zone, *)
(* one pixel per processed frame, with frames in between whose detection   *)
(* has no track id or a malformed box.                                     *)
(***************************************************************************)
NoDetections == last_detections = <<>>

\* the center of the frame processed after n calls
WalkPoint(n) == <<n + 1, 300>>

\* detections that carry no usable position: no track id (line 71), a box
\* without 4 coordinates (line 77)
UnusableDetections ==
    { Detection(NoTrackId, PA),
      [track_id |-> 1, bbox |-> <<90, 70, 110>>, class |-> "person"],
      [track_id |-> 1, bbox |-> <<>>, class |-> "person"] }

\* check_line_crossing, with its argument recorded
DoCheckRecorded(detections) ==
    \E r \in {check_line_crossing(object_trajectories, crossed_objects,
                                  detections, line_crossings)} :
        /\ object_trajectories' = r.traj
        /\ crossed_objects' = r.crossed
        /\ crossing_events' = r.events
        /\ calls' = calls + 1
        /\ accepted' = accepted \o stamp(r.events, r.traj, calls + 1)
        /\ last_detections' = detections
        /\ UNCHANGED <<line_crossings, vsvars, rtsp, client, roi, heatmap, zone>>

TrackedFrame(t) ==
    /\ calls < MaxTrajCalls
    /\ DoCheckRecorded(<<Detection(t, WalkPoint(calls))>>)

\* frames without a usable detection are taken before the first point and
\* around the overflow of the trajectory
UntrackedFrame(d) ==
    /\ calls < MaxTrajCalls
    /\ \A t \in Tracks :
          Len(object_trajectories[t])
             \in {0, max_trajectory_length - 1, max_trajectory_length}
    /\ DoCheckRecorded(<<d>>)

TrajectoryNext ==
    \/ \E t \in Tracks : TrackedFrame(t)
    \/ \E d \in UnusableDetections : UntrackedFrame(d)

XIdle == RtspInit /\ ClientInit /\ RoiInit /\ HeatmapInit /\ ZoneInit /\ NoDetections

\* one camera, an unreliable source
StreamNext ==
    \/ \E m \in Models : StartStream(1, m)
    \/ \E m \in Models : StartStreamAgain(1, m)
    \/ StopStream(1)
    \/ StopStreamReturn(1)
    \/ SourceDown(1)
    \/ SourceUp(1)
    \/ \E s \in Streams : CaptureStep(s)
    \/ \E s \in Streams : CaptureFailureStep(s)
    \/ \E s \in Streams : ProcessingStep(s)
    \/ \E s \in Streams : StopStep(s)

\* several cameras, reliable sources
ManagerNext ==
    \/ \E c \in Cams, m \in Models : StartStream(c, m)
    \/ \E c \in Cams, m \in Models : StartStreamAgain(c, m)
    \/ \E c \in Cams : StopStream(c)
    \/ \E c \in Cams : StopStreamReturn(c)
    \/ \E s \in Streams : CaptureStep(s)
    \/ \E s \in Streams : ProcessingStep(s)
    \/ \E s \in Streams : StopStep(s)

\* one camera, a reliable source, the configuration is updated
ApiNext ==
    \/ \E m \in Models : StartStream(1, m)
    \/ \E m \in Models : StartStreamAgain(1, m)
    \/ \E m \in Models : UpdateCameraConfig(1, m)
    \/ StopStream(1)
    \/ StopStreamReturn(1)
    \/ \E s \in Streams : CaptureStep(s)
    \/ \E s \in Streams : ProcessingStep(s)
    \/ \E s \in Streams : ProcessingRawSelector(s)
    \/ \E s \in Streams : StopStep(s)
    \/ GetFrame(1)
    \/ GetRawFrame(1)
    \/ ClientModifies
    \/ ClientReturns

\* sources that stay up and have one more frame to deliver
ReliableSources ==
    source = [c \in Cams |->
                [up |-> TRUE, outages |-> MaxOutages, frames |-> MaxFrames - 1]]

\* the line-crossing detector at rest beside the streams
LCIdle == LCRouteInit /\ XIdle

\* __init__ of the manager (lines 30-33) and of the AI service
ManagerInit ==
    /\ mgr = [streams |-> [c \in Cams |-> 0], lock |-> FALSE,
              call |-> NoCall, created |-> 0]
    /\ ai \in [device : Devices, models : {{}}, cleared_by : {0}]
    /\ vs = [s \in Streams |-> NewVideoStream(0, "none")]
    /\ ReliableSources

InitManager == ManagerInit /\ LCIdle

SpecManager == InitManager /\ [][ManagerNext]_vars

\* one VideoStream object is left to create, its source is unreliable
StreamInit ==
    /\ mgr = [streams |-> [c \in Cams |-> 0], lock |-> FALSE,
              call |-> NoCall, created |-> MaxStreams - 1]
    /\ ai \in [device : Devices, models : {{}}, cleared_by : {0}]
    /\ vs = [s \in Streams |-> NewVideoStream(0, "none")]
    /\ source = [c \in Cams |-> [up |-> TRUE, outages |-> 0, frames |-> 0]]

InitStream == StreamInit /\ LCIdle

SpecStream == InitStream /\ [][StreamNext]_vars

\* one VideoStream object is left to create, its source is reliable
ApiInit ==
    /\ mgr = [streams |-> [c \in Cams |-> 0], lock |-> FALSE,
              call |-> NoCall, created |-> MaxStreams - 1]
    /\ ai \in [device : Devices, models : {{}}, cleared_by : {0}]
    /\ vs = [s \in Streams |-> NewVideoStream(0, "none")]
    /\ ReliableSources

InitApi == ApiInit /\ LCIdle

SpecApi == InitApi /\ [][ApiNext]_vars

\* no stream has been started
VSIdle == ManagerInit /\ ai.device = "cpu"

InitLC == LCInit /\ VSIdle /\ XIdle

SpecLC == InitLC /\ [][LCNext]_vars

InitLCRoute == LCRouteInit /\ VSIdle /\ XIdle

SpecLCRoute == InitLCRoute /\ [][LCRouteNext]_vars

InitRtsp ==
    /\ LCRouteInit /\ VSIdle
    /\ RtspInit /\ ClientInit /\ RoiInit /\ HeatmapInit /\ ZoneInit /\ NoDetections

SpecRtsp == InitRtsp /\ [][RtspNext]_vars

InitRoi ==
    /\ LCRouteInit /\ VSIdle
    /\ RtspInit /\ ClientInit /\ RoiInit /\ HeatmapInit /\ ZoneInit /\ NoDetections

SpecRoi == InitRoi /\ [][RoiNext]_vars

InitHeatmap ==
    /\ LCRouteInit /\ VSIdle
    /\ RtspInit /\ ClientInit /\ RoiInit /\ ZoneInit /\ NoDetections /\ HeatmapAnyField

SpecHeatmap == InitHeatmap /\ [][HeatmapNext]_vars

\* the scheduler runs every started thread, and the caller of stop() goes on
StreamFairness ==
    \A s \in Streams :
        /\ WF_vars(CaptureStep(s) \/ CaptureFailureStep(s))
        /\ WF_vars(ProcessingStep(s))
        /\ WF_vars(StopStep(s))

SpecStreamFair == SpecStream /\ StreamFairness

(***************************************************************************)
(* Properties of the streams and of the manager                            *)
(***************************************************************************)
Registered(c) == mgr.streams[c] # 0

StopRequested(s) == vs[s].stop # "idle"

ThreadsExited(s) ==
    /\ vs[s].capture = "done"
    /\ vs[s].processing \in {"done", "raised"}

\* the processing thread of s takes its frame from the register
Samples(s) == vs[s].processing = "loop" /\ vs'[s].processing = "process"

\* C1: start_stream for a camera whose stream is registered returns - the
\* call, once it holds the manager lock and calls stop_stream, can always
\* take that step (it does not wait for ever).
C1_RestartReturns ==
    \A c \in Cams :
        (mgr.call.op = "start_stream" /\ mgr.call.cam = c) => ENABLED StopStream(c)

\* C7: P6 - whenever the processing loop takes a frame, the frame is the
\* last one the capture loop has written (not an older one, not a queue).
C7_Freshness ==
    [][\A s \in Streams : Samples(s) => vs'[s].frame = vs[s].last_written]_vars

\* the processing thread has taken a frame that overwrote an earlier one
\* which was never taken
C7_Witness ==
    \E s \in Streams :
        /\ vs[s].processing = "process"
        /\ vs[s].frame > 1
        /\ vs[s].raw_frame = 0

\* C8: after stop is requested both loops exit, stop() returns, and
\* eventually no capture handle of the stream is open, for good - also
\* when the capture thread is opening or reconnecting at that time.
C8_StopReleases ==
    \A s \in Streams :
        StopRequested(s) ~>
            [](ThreadsExited(s) /\ vs[s].stop = "done" /\ vs[s].cap # "open")

\* stop() has returned while the capture thread is still reconnecting
C8_Witness ==
    \E s \in Streams : vs[s].stop = "done" /\ vs[s].capture = "reopen"

\* C9: a detection that raises does not end the processing loop (the cycle
\* is skipped and later cycles run).
C9_DetectionFailureSkipsCycle ==
    \A s \in Streams :
        ~(vs[s].processing = "raised" /\ vs[s].raised = "detect_objects")

\* C10: failure isolation - no loop of a stream is ended by an event of a
\* different camera's stream (here: by the model cleanup of its stop()).
C10_FailureIsolation ==
    \A s \in Streams :
        ~(vs[s].processing = "raised" /\ vs[s].raised = "KeyError_other_stop")

\* the processing thread of s publishes the frames of its cycle
Publishes(s) == vs[s].processing = "publish" /\ vs'[s].processing = "loop"

\* C11: every configuration value read during one processing cycle comes
\* from the same snapshot - the snapshot read at the start of _process_frame
\* is the one read at its end.
C11_OneSnapshotPerCycle ==
    \A s \in Streams :
        (vs[s].processing = "publish" /\ vs[s].cfg_first # 0)
            => vs[s].cfg_first = vs[s].cfg_last

\* C12: a source that cannot be opened when the capture loop starts is
\* retried - while the stream is running its capture loop has not given up.
C12_OpenFailureRetried ==
    \A s \in Streams : vs[s].running => vs[s].capture # "done"

\* C13 (as stated): the reconnect is triggered once the count of
\* consecutive read failures reaches the threshold of 10 - a capture loop
\* that is still reading has fewer than 10 consecutive failures.
C13_Original ==
    \A s \in Streams :
        vs[s].capture = "loop" =>
            vs[s].consecutive_failures < max_consecutive_failures

\* C13 (amended): the reconnect is triggered by the read failure that takes
\* the count of consecutive failures above the threshold (the 11th), and by
\* no earlier one; a successful read sets the count to zero; after the
\* reconnect the loop goes on reading with a count of zero.
C13_ReconnectPastThreshold ==
    [][\A s \in Streams :
         /\ (vs[s].capture = "loop" /\ vs'[s].capture = "reconnect")
               => vs[s].consecutive_failures = max_consecutive_failures
         /\ (/\ vs[s].capture = "loop"
             /\ vs'[s].consecutive_failures > vs[s].consecutive_failures
             /\ vs'[s].consecutive_failures <= max_consecutive_failures)
               => vs'[s].capture = "loop"
         /\ vs'[s].last_written # vs[s].last_written
               => vs'[s].consecutive_failures = 0
         /\ (vs[s].capture = "reopen" /\ vs'[s].capture # "reopen")
               => (vs'[s].capture = "loop" /\ vs'[s].consecutive_failures = 0)
      ]_vars

\* the 11th failure in a row has started a reconnect of a running stream
C13_Witness ==
    \E s \in Streams :
        /\ vs[s].running
        /\ vs[s].capture = "reopen"
        /\ vs[s].consecutive_failures = max_consecutive_failures + 1

\* C14: when reads have failed beyond the failure budget the loop ends
\* and the session is no longer reported as active.
C14_OfflineObservable ==
    (rtsp.thread = "done" /\ rtsp.cap = "released") => ~reported_active(rtsp)

\* the register that get_frame (annotated) or get_raw_frame (raw) reads
Register(c, kind) ==
    IF mgr.streams[c] = 0 THEN 0
    ELSE IF kind = "raw" THEN vs[mgr.streams[c]].raw_frame
         ELSE vs[mgr.streams[c]].latest_frame

\* C15: get_frame / get_raw_frame return None when no stream is registered
\* for the camera (also after stop_stream has completed) or nothing has been
\* published yet, and otherwise the content of the last published annotated
\* (raw) frame, as a copy: a caller writing into it changes no register.
C15_FrameOrNone ==
    [][/\ (client.camera_id = 0 /\ client'.camera_id # 0)
            => /\ client'.frame = Register(client'.camera_id, client'.kind)
               /\ client'.buffer # "register"
       /\ (~client.modified /\ client'.modified) => vs' = vs
      ]_vars

\* a caller has written into the annotated frame it was handed, and the
\* register of the registered stream still holds the published frame
C15_Witness ==
    /\ client.kind = "annotated"
    /\ client.modified
    /\ mgr.streams[client.camera_id] # 0
    /\ client.frame = Modified(vs[mgr.streams[client.camera_id]].latest_frame)

\* C16: get_frame for camera A does not wait on work of another camera B -
\* while stop_stream(B) or start_stream(B) is in progress, get_frame(A) can
\* complete.
C16_NoCrossCameraWait ==
    \A a \in Cams, b \in Cams :
        (a # b /\ mgr.call.cam = b /\ client.camera_id = 0)
            => ENABLED GetFrame(a)

(***************************************************************************)
(* Properties of the ROI test                                              *)
(***************************************************************************)
\* twice the signed area of a, b, p: positive when p is left of a -> b
Area2(a, b, p) ==
    (b[1] - a[1]) * (p[2] - a[2]) - (b[2] - a[2]) * (p[1] - a[1])

\* p is in the closed convex piece (counter-clockwise vertices)
InPiece(p, piece) ==
    \A k \in 1 .. Len(piece) :
        Area2(Twice(piece[k]), Twice(piece[(k % Len(piece)) + 1]), p) >= 0

OnBoundary(p, coords) ==
    \E k \in 1 .. Len(coords) :
        /\ Area2(ring_from(coords, k), ring_to(coords, k), p) = 0
        /\ (p[1] - ring_from(coords, k)[1]) * (p[1] - ring_to(coords, k)[1]) <= 0
        /\ (p[2] - ring_from(coords, k)[2]) * (p[2] - ring_to(coords, k)[2]) <= 0

RoiTested == roi.op = "check_roi_violation"
TestedCenter2 == <<roi.arg[1][1] + roi.arg[1][3], roi.arg[1][2] + roi.arg[1][4]>>
TestedRoi == roi.arg[2]

StrictlyInside ==
    /\ ~OnBoundary(TestedCenter2, TestedRoi.coords)
    /\ \E piece \in TestedRoi.pieces : InPiece(TestedCenter2, piece)

StrictlyOutside ==
    /\ ~OnBoundary(TestedCenter2, TestedRoi.coords)
    /\ \A piece \in TestedRoi.pieces : ~InPiece(TestedCenter2, piece)

\* C17: P1 (containment) - for a simple polygon, check_roi_violation is true
\* when the center of the box is strictly inside, false when it is strictly
\* outside, and on the boundary the answer is that of any other call with
\* the same input.
C17_Containment ==
    (RoiTested /\ TestedRoi.valid) =>
        /\ StrictlyInside => roi.result
        /\ StrictlyOutside => ~roi.result
        /\ roi.result = check_roi_violation(roi.arg[1], TestedRoi.coords)

\* a box whose center (1.5, 1.5) is inside the notch side of the concave ROI
C17_Witness ==
    /\ RoiTested
    /\ Len(TestedRoi.coords) = 6
    /\ StrictlyInside
    /\ roi.result

\* C18: malformed geometry - the ROI test answers false for every vertex
\* list that is not a valid polygon, and the line test reports no crossing
\* for a line whose two endpoints coincide.
C18_MalformedIsNegative ==
    /\ (RoiTested /\ ~TestedRoi.valid) => ~roi.result
    /\ (roi.op = "line_intersection" /\ roi.arg[3] = roi.arg[4]) => ~roi.result

(***************************************************************************)
(* Properties of the heatmap                                               *)
(***************************************************************************)
Total(f) == f[1] + f[2]

HeatmapUpdated == heatmap.frame_count > 0

\* the largest cell that the rounded product leaves as it is:
\* 1 / (2 (1 - decay_rate)) steps
HeatEpsilon == decay_rate_den \div (2 * (decay_rate_den - decay_rate_num))

C20_RawBypass ==
    [][\A s \in Streams :
         (/\ Publishes(s)
          /\ vs[s].custom_model = "raw_stream"
          /\ vs[s].cfg_sampled = vs[s].config)
            => /\ vs[s].cfg_first = 0
               /\ vs'[s].latest_frame = vs'[s].raw_frame
      ]_vars

(***************************************************************************)
(* Further properties of the detector (Part I).                            *)
(***************************************************************************)

\* C21: crossing-state invariant - after every check_line_crossing call,
\* each (track_id, line_id) entry of crossed_objects belongs to a track
\* whose most recent recorded position is within reset_distance of the line;
\* an entry whose track was seen farther away in that call is absent.
C21_CrossingState ==
    \A key \in DOMAIN crossed_objects :
        /\ Traj(key[1]) # <<>>
        /\ ~FarAt(key[1], Len(Traj(key[1])))

\* the segment that ends at the k-th center of t intersects the zone
IntersectsAt(t, k) ==
    /\ k \in 2 .. Len(Traj(t))
    /\ line_intersection(Traj(t)[k - 1], Traj(t)[k], L1, L2).crossed

EventsOf(t) == { e \in DOMAIN accepted : accepted[e].track_id = t }

\* C22: a track whose trajectory intersects the zone in exactly one segment
\* has produced exactly one crossing event for that zone, whatever frames
\* followed the crossing, also frames beyond reset_distance while the
\* crossing segment is still among the segments tested.
C22_OneEventPerCrossing ==
    IsBoth =>
      \A t \in Tracks :
        Cardinality({k \in 2 .. Len(Traj(t)) : IntersectsAt(t, k)}) = 1
          => Cardinality(EventsOf(t)) = 1

(***************************************************************************)
(*                                                                         *)
(* Part VI: direction of a crossing and the direction filter               *)
(* (_get_crossing_direction, _should_count_crossing), one call at a time   *)
(*                                                                         *)
(***************************************************************************)
DirPoints == { <<x, y>> : x \in 0 .. DirGridMax, y \in 0 .. DirGridMax }

Directions ==
    {"up_to_down", "down_to_up", "left_to_right", "right_to_left", "in", "out"}

\* the values of count_direction: the five recognized ones and another one
Filters == {"both", "up", "down", "left", "right", "inward"}

\* lines 178-185: _get_crossing_direction is called for a segment
\* prev_pos-curr_pos that _line_intersection found to cross the line
GetCrossingDirection(prev_pos, curr_pos, line_start, line_end) ==
    /\ roi.op = "none"
    /\ line_intersection(prev_pos, curr_pos, line_start, line_end).crossed
    /\ roi' = [op |-> "get_crossing_direction",
               arg |-> <<prev_pos, curr_pos, line_start, line_end>>,
               result |-> get_crossing_direction(prev_pos, curr_pos,
                                                 line_start, line_end)]
    /\ UNCHANGED <<lcvars, vsvars, last_detections, zone, rtsp, client, heatmap>>

\* a crossing that _detect_crossing accepted, in the given direction
AcceptedCrossing(direction) ==
    [hit |-> TRUE, crossed |-> EmptyCrossed,
     event |-> [track_id |-> 1, object_class |-> "person",
                direction |-> direction, crossing_point |-> None,
                bbox |-> BoxAt(PA)]]

\* lines 123-132 for one accepted crossing and a zone with the given
\* count_direction: is the event among the events returned
FilterCrossing(direction, count_direction) ==
    /\ roi.op = "none"
    /\ roi' = [op |-> "should_count_crossing",
               arg |-> <<direction, count_direction>>,
               result |-> Len(collect_event(
                                [traj |-> [t \in Tracks |-> <<>>],
                                 crossed |-> EmptyCrossed, events |-> <<>>],
                                LineConfig(count_direction),
                                AcceptedCrossing(direction)).events) = 1]
    /\ UNCHANGED <<lcvars, vsvars, last_detections, zone, rtsp, client, heatmap>>

DirectionNext ==
    \/ \E p1 \in DirPoints, p2 \in DirPoints, p3 \in DirPoints, p4 \in DirPoints :
          GetCrossingDirection(p1, p2, p3, p4)
    \/ \E d \in Directions, f \in Filters : FilterCrossing(d, f)

InitDirection ==
    /\ LCRouteInit /\ VSIdle
    /\ RtspInit /\ ClientInit /\ RoiInit /\ HeatmapInit /\ ZoneInit /\ NoDetections

SpecDirection == InitDirection /\ [][DirectionNext]_vars

(***************************************************************************)
(* Properties of the direction and of the filter                           *)
(***************************************************************************)
DirectionTested == roi.op = "get_crossing_direction"
TestedPrev == roi.arg[1]
TestedCurr == roi.arg[2]
TestedStart == roi.arg[3]
TestedEnd == roi.arg[4]

\* side of the tested line on which p lies: the sign of (end - start) x
\* (p - start)
Side(p) == Orient(TestedStart, TestedEnd, p)

HorizontalDominant ==
    Abs(TestedEnd[1] - TestedStart[1]) > Abs(TestedEnd[2] - TestedStart[2])

StrictFlip == Side(TestedPrev) * Side(TestedCurr) < 0

\* C23: direction classification - for a segment whose endpoints lie
\* strictly on opposite sides of the line the label is up_to_down (negative
\* to positive) or down_to_up (positive to negative) when |dx| > |dy|, and
\* left_to_right (negative to positive) or right_to_left (positive to
\* negative) otherwise; in and out are not produced.
C23_DirectionClassification ==
    (DirectionTested /\ StrictFlip) =>
        roi.result =
            (IF HorizontalDominant
             THEN IF Side(TestedPrev) < 0 THEN "up_to_down" ELSE "down_to_up"
             ELSE IF Side(TestedPrev) < 0 THEN "left_to_right"
                                          ELSE "right_to_left")

C23_Witness ==
    /\ DirectionTested
    /\ StrictFlip
    /\ ~HorizontalDominant
    /\ Side(TestedPrev) > 0
    /\ roi.result = "right_to_left"

\* C24 as stated: with the previous or the current point exactly on the
\* line, the direction is the generic label in.
C24_Original ==
    (DirectionTested /\ ~StrictFlip) => roi.result = "in"

\* C24 (amended): with the previous or the current point exactly on the
\* line (no strict sign flip) the direction is the generic label out; the
\* label in is never produced.
C24_AmbiguousIsOut ==
    DirectionTested =>
        /\ ~StrictFlip => roi.result = "out"
        /\ roi.result # "in"

C24_Witness ==
    /\ DirectionTested
    /\ Side(TestedPrev) < 0
    /\ Side(TestedCurr) = 0
    /\ roi.result = "out"

\* C25: the direction label does not depend on the order of the two
\* endpoints of the line - the same step against the line with its
\* endpoints exchanged has the same label.
C25_EndpointOrder ==
    DirectionTested =>
        roi.result = get_crossing_direction(TestedPrev, TestedCurr,
                                            TestedEnd, TestedStart)

FilterTested == roi.op = "should_count_crossing"
TestedDirection == roi.arg[1]
TestedFilter == roi.arg[2]

\* the table of the direction filter
Passes(direction, filter) ==
    \/ filter = "both"
    \/ filter = "up" /\ direction \in {"up_to_down", "in"}
    \/ filter = "down" /\ direction \in {"down_to_up", "out"}
    \/ filter = "left" /\ direction \in {"left_to_right", "in"}
    \/ filter = "right" /\ direction \in {"right_to_left", "out"}

\* C26: direction filter - an accepted crossing is among the events
\* returned exactly when its direction passes the zone's count_direction
\* (both: every direction; up: up_to_down, in; down: down_to_up, out; left:
\* left_to_right, in; right: right_to_left, out; another value: none).
C26_DirectionFilter ==
    FilterTested => (roi.result <=> Passes(TestedDirection, TestedFilter))

C26_Witness ==
    /\ FilterTested
    /\ TestedFilter = "left"
    /\ TestedDirection = "right_to_left"
    /\ ~roi.result

InitCounters ==
    /\ LCInit /\ VSIdle
    /\ RtspInit /\ ClientInit /\ RoiInit /\ HeatmapInit /\ ZoneInit /\ NoDetections

SpecCounters == InitCounters /\ [][CountersNext]_vars

(***************************************************************************)
(* Properties of the counters                                              *)
(***************************************************************************)
CounterKeys == {"count_in", "count_out"}

\* the events of the frame just processed whose direction is in dirs
EventsIn(events, dirs) ==
    Cardinality({ i \in DOMAIN events : events[i].direction \in dirs })

\* a step in which events were handled successfully: each of them added 1
\* to count_in (up_to_down, left_to_right, in) or to count_out (down_to_up,
\* right_to_left, out), and to no other counter; a processed frame without
\* a handled event leaves the counters as they are
CountedOnce ==
    /\ zone'.handled # zone.handled =>
         /\ zone'.handled - zone.handled = Len(crossing_events')
         /\ zone'.count_in - zone.count_in
              = EventsIn(crossing_events', InDirections)
         /\ zone'.count_out - zone.count_out
              = EventsIn(crossing_events', OutDirections)
         /\ (zone'.count_in + zone'.count_out)
              - (zone.count_in + zone.count_out)
              = zone'.handled - zone.handled
    /\ (calls' # calls /\ zone'.handled = zone.handled) =>
         /\ zone'.count_in = zone.count_in
         /\ zone'.count_out = zone.count_out

\* C27 as stated: each crossing event handled successfully increments
\* exactly one counter of its line by exactly 1, by direction, and no
\* method of LineCrossingDetector reads or writes count_in / count_out.
C27_Original ==
    [][ /\ CountedOnce
        /\ \A k \in zone'.keys : k[2] \notin CounterKeys ]_vars

\* C27 (amended): each crossing event handled successfully increments
\* exactly one counter of its line by exactly 1 (count_in for up_to_down,
\* left_to_right, in; count_out for down_to_up, right_to_left, out); a call
\* of check_line_crossing neither reads nor changes the counters; the only
\* method of LineCrossingDetector that reads them is draw_line_crossings,
\* for the label of the zone.
C27_ConsumerCounts ==
    [][ /\ CountedOnce
        /\ \A k \in zone'.keys :
              k[2] \in CounterKeys => k[1] = "draw_line_crossings" ]_vars

C27_Witness ==
    /\ zone.handled = 2
    /\ zone.resets = 0
    /\ zone.count_in = 1
    /\ zone.count_out = 1
    /\ zone.label = <<1, 1>>
    /\ <<"draw_line_crossings", "count_in">> \in zone.keys

\* C28 as stated: count_in and count_out never decrease, and change only
\* when a confirmed crossing event of the zone is handled.
C28_Original ==
    [][ /\ zone'.count_in >= zone.count_in
        /\ zone'.count_out >= zone.count_out
        /\ (zone'.count_in # zone.count_in \/ zone'.count_out # zone.count_out)
              => (zone'.handled > zone.handled /\ crossing_events' # <<>>)
      ]_vars

\* C28 (amended): reset_line_crossing_count sets count_in and count_out to
\* 0; in every other operation they never decrease, and they change only
\* when a confirmed crossing event of the zone is handled.
C28_MonotoneUntilReset ==
    [][ IF zone'.resets # zone.resets
        THEN zone'.count_in = 0 /\ zone'.count_out = 0
        ELSE /\ zone'.count_in >= zone.count_in
             /\ zone'.count_out >= zone.count_out
             /\ (zone'.count_in # zone.count_in
                   \/ zone'.count_out # zone.count_out)
                   => (zone'.handled > zone.handled /\ crossing_events' # <<>>)
      ]_vars

C28_Witness ==
    /\ zone.resets = 1
    /\ zone.handled = 3
    /\ zone.count_in + zone.count_out = 1
    /\ zone.last = "frame"

InitTrajectory ==
    /\ LCRouteInit /\ VSIdle
    /\ RtspInit /\ ClientInit /\ RoiInit /\ HeatmapInit /\ ZoneInit /\ NoDetections

SpecTrajectory == InitTrajectory /\ [][TrajectoryNext]_vars

(***************************************************************************)
(* Properties of the trajectories                                          *)
(***************************************************************************)
\* the last n elements of the sequence q (all of q when it is shorter)
LastN(q, n) ==
    IF Len(q) <= n THEN q ELSE SubSeq(q, Len(q) - n + 1, Len(q))

Usable(d) == d.track_id # NoTrackId /\ Len(d.bbox) = 4

\* C29: trajectory bound - after every check_line_crossing call each
\* trajectory holds at most 50 points; a detection with a track id and a
\* box of 4 coordinates appends its center and, on overflow, evicts the
\* oldest point, so that the trajectory is the most recent centers in
\* arrival order; a detection without track id or with another box adds no
\* point and creates no state.
C29_TrajectoryBound ==
    [][ calls' # calls =>
          \A t \in Tracks :
            /\ Len(object_trajectories'[t]) <= 50
            /\ \A i \in DOMAIN last_detections' :
                 IF Usable(last_detections'[i])
                 THEN last_detections'[i].track_id = t =>
                        object_trajectories'[t] =
                          LastN(object_trajectories[t]
                                  \o <<Center(last_detections'[i].bbox)>>, 50)
                 ELSE /\ object_trajectories'[t] = object_trajectories[t]
                      /\ crossed_objects' = crossed_objects
      ]_vars

C29_Witness ==
    /\ Len(object_trajectories[1]) = 50
    /\ calls >= 52
    /\ object_trajectories[1][50] = WalkPoint(calls - 1)
    /\ object_trajectories[1][1][1] < object_trajectories[1][50][1] - 49
    /\ last_detections # <<>>
    /\ Usable(last_detections[1])

(***************************************************************************)
(* Look-back tests: a track seen at A, at B (across the zone) or far away, *)
(* for more frames than segments are tested.                               *)
(***************************************************************************)
LookbackPoints == {PA, PB, PFar}

LookbackFrame(t, p) ==
    /\ calls < MaxLookbackCalls
    /\ DoCheck(<<Detection(t, p)>>)

LookbackNext == \E t \in Tracks, p \in LookbackPoints : LookbackFrame(t, p)

InitLookback == LCRouteInit /\ VSIdle /\ XIdle

SpecLookback == InitLookback /\ [][LookbackNext]_vars

\* the segments that end at one of the 5 most recent centers as of the k-th
\* and cross the zone
RecentCrossings(t, k) ==
    { j \in 2 .. k : k - j < 5 /\ StrictCrossAt(t, j) }

MostRecentCrossing(t, k) ==
    CHOOSE j \in RecentCrossings(t, k) : \A i \in RecentCrossings(t, k) : i <= j

\* the point pt = (xn/d, yn/d) lies on the line through a and b
OnLineThrough(a, b, pt) ==
    (b[1] - a[1]) * (pt.yn - a[2] * pt.d)
      - (b[2] - a[2]) * (pt.xn - a[1] * pt.d) = 0

\* C30: an event returned by the call that processed the k-th center comes
\* from one of the min(5, k-1) most recent segments: its direction and its
\* crossing point are those of the most recent of these segments that
\* intersects the line; a segment older than the 5 most recent causes no
\* event.
C30_RecentSegments ==
    \A t \in Tracks : \A k \in 1 .. Len(Traj(t)) :
        /\ Cardinality(EventsAt(t, k)) <= 1
        /\ \A e \in EventsAt(t, k) :
             /\ RecentCrossings(t, k) # {}
             /\ accepted[e].direction = LabelAt(t, MostRecentCrossing(t, k))
             /\ OnLineThrough(L1, L2, accepted[e].crossing_point)
             /\ OnLineThrough(Traj(t)[MostRecentCrossing(t, k) - 1],
                              Traj(t)[MostRecentCrossing(t, k)],
                              accepted[e].crossing_point)

C30_Witness ==
    /\ Len(Traj(1)) = 7
    /\ StrictCrossAt(1, 2)
    /\ \A k \in 3 .. 7 : ~StrictCrossAt(1, k)
    /\ FarAt(1, 6) /\ FarAt(1, 7)
    /\ CountedAt(1, 6)
    /\ ~CountedAt(1, 7)
    /\ crossing_events = <<>>

(***************************************************************************)
(* Properties of the segment intersection                                  *)
(***************************************************************************)
IntersectionTested == roi.op = "line_intersection"

\* the segments a-b and c-d have parallel (or degenerate) supporting lines
Parallel(a, b, c, d) ==
    (b[1] - a[1]) * (d[2] - c[2]) - (b[2] - a[2]) * (d[1] - c[1]) = 0

\* a and b do not lie strictly on the same side of the line through c, d
Straddles(a, b, c, d) == Orient(c, d, a) * Orient(c, d, b) <= 0

\* C31: segment intersection - _line_intersection(p1, p2, p3, p4) reports
\* a crossing exactly when the segments are not parallel and the point
\* where their supporting lines meet lies on both segments, endpoints
\* included; parallel or collinear segments and a trajectory segment of
\* length zero never intersect.
C31_SegmentIntersection ==
    IntersectionTested =>
        /\ roi.result <=>
             /\ ~Parallel(roi.arg[1], roi.arg[2], roi.arg[3], roi.arg[4])
             /\ Straddles(roi.arg[1], roi.arg[2], roi.arg[3], roi.arg[4])
             /\ Straddles(roi.arg[3], roi.arg[4], roi.arg[1], roi.arg[2])
        /\ roi.arg[1] = roi.arg[2] => ~roi.result

C31_Witness ==
    /\ IntersectionTested
    /\ roi.arg[1] = roi.arg[3]
    /\ ~Parallel(roi.arg[1], roi.arg[2], roi.arg[3], roi.arg[4])
    /\ roi.result

(***************************************************************************)
(* Further properties of the frame pipeline (Part II).  Frames carry their *)
(* capture number; the annotated frame of capture n is -n.                 *)
(***************************************************************************)
CaptureNumber(f) == Abs(f)

\* C32: within one camera frames are never reordered - the frames sampled
\* by successive processing cycles and the frames successively published
\* to the annotated and to the raw register are in non-decreasing capture
\* order, under every interleaving and in both resource profiles.
C32_NoReordering ==
    [][\A s \in Streams :
         /\ vs'[s].frame >= vs[s].frame
         /\ vs'[s].raw_frame >= vs[s].raw_frame
         /\ CaptureNumber(vs'[s].latest_frame) >= CaptureNumber(vs[s].latest_frame)
      ]_vars

\* a skipped cycle of the throttled profile has published the annotated
\* frame of capture 1 next to the raw frame of capture 2
C32_Witness ==
    \E s \in Streams :
        /\ is_cpu_mode
        /\ vs[s].processing = "loop"
        /\ vs[s].raw_frame = 2
        /\ vs[s].latest_frame = draw_detections(1)

\* a detection on a captured frame that an earlier cycle has already
\* published, while the source is down (the capture loop is in its read
\* failures and reconnects and has delivered no newer frame)
DetectsAgain(s) ==
    /\ vs[s].processing = "infer"
    /\ vs'[s].processing = "publish"
    /\ vs[s].frame = vs[s].raw_frame
    /\ ~source[vs[s].camera_id].up

\* C33: no captured frame is duplicated indefinitely - while the capture
\* loop delivers no new frame, the processing loop does not keep running
\* the same captured frame through detection without bound: from some point
\* on, a frame already processed is not processed again.
C33_NoIndefiniteDuplication ==
    \A s \in Streams : <>[][~DetectsAgain(s)]_vars

\* the processing thread of the stream has been started and has not ended
ProcessingAlive(s) == vs[s].processing \notin {"new", "done", "raised"}

\* stop() lines 119-124: the step that resets the detector
\* (reset_crossed_objects clears crossed_objects and object_trajectories)
StopResetsDetector(s) == vs[s].stop = "release" /\ vs'[s].stop = "clear"

\* C34: the trajectory and crossing-state maps of a stream's detector are
\* written only by its processing thread - no other thread changes them
\* while the processing thread is alive; in particular stop() resets the
\* detector only when the processing thread has ended.
C34_DetectorSingleWriter ==
    [][\A s \in Streams : StopResetsDetector(s) => ~ProcessingAlive(s)]_vars

\* line 314: the cycle takes the loop's raw bypass (if is_raw_stream)
TakesRawBypass(s) ==
    /\ vs[s].processing = "process"
    /\ vs'[s].processing = "publish"
    /\ vs[s].is_raw_stream

\* the cycle of stream s leaves the choice of lines 314-330, and it began
\* after the last update_config returned
DecidesAfterUpdate(s) ==
    /\ vs[s].processing = "process"
    /\ vs'[s].processing # "process"
    /\ vs[s].cfg_sampled = vs[s].config

\* C35: after update_camera_config(camera_id, cfg) has returned, every
\* processing cycle that starts afterwards behaves according to cfg alone:
\* it takes the raw bypass exactly when cfg's model selector is
\* 'raw_stream'; nothing is latched from the configuration the stream was
\* started with.
C35_ConfigAloneDecides ==
    [][\A s \in Streams :
         DecidesAfterUpdate(s)
            => (TakesRawBypass(s) <=> vs[s].custom_model = "raw_stream")
      ]_vars

\* stream s runs the detection branch of the loop under the CPU profile
Throttled(s) ==
    /\ is_cpu_mode
    /\ ~vs[s].is_raw_stream
    /\ vs[s].custom_model # "raw_stream"

\* the cycle calls _process_frame (the detection follows)
DetectionCycle(s) ==
    /\ vs[s].processing = "process"
    /\ vs'[s].processing = "load_model_return"

\* the cycle goes to the publication without a call of _process_frame
SkippedCycle(s) ==
    /\ vs[s].processing = "process"
    /\ vs'[s].processing = "publish"

\* C36: under the CPU profile with a non-raw model the detection is called
\* on every second cycle only (the even ones); a skipped cycle makes no
\* detection call and publishes the most recently annotated frame; a cycle
\* on an odd count is processed only while no annotated frame exists yet.
C36_EverySecondCycle ==
    [][\A s \in Streams : Throttled(s) =>
         /\ DetectionCycle(s) =>
              \/ vs'[s].frame_counter = 0
              \/ vs[s].latest_frame = 0 /\ vs[s].last_processed_frame = 0
         /\ SkippedCycle(s) =>
              /\ vs'[s].frame_counter = 1
              /\ vs[s].latest_frame # 0
              /\ vs'[s].processed_frame = vs[s].latest_frame
              /\ vs'[s].processed_frame = draw_detections(CaptureNumber(vs[s].latest_frame))
              /\ ai' = ai
         /\ (vs[s].processing = "process" /\ vs'[s].processing # "process")
              => vs'[s].frame_counter = 1 - vs[s].frame_counter
      ]_vars

C36_Witness ==
    \E s \in Streams :
        /\ Throttled(s)
        /\ vs[s].processing = "publish"
        /\ vs[s].frame_counter = 1
        /\ vs[s].frame = 2
        /\ vs[s].processed_frame = vs[s].last_processed_frame
        /\ vs[s].processed_frame = vs[s].latest_frame
        /\ vs[s].processed_frame \in {draw_detections(1), draw_detections(2)}

InitHeatBlobs == LCRouteInit /\ VSIdle /\ XIdle

SpecHeatBlobs == InitHeatBlobs /\ [][HeatBlobsNext]_vars

\* C37: heatmap bounds - after every update, with any number of detections
\* of any box size, every cell of the field lies in [0, 10.0], and the
\* radius of the blob of each detection lies in [20, 100] px.
C37_HeatmapBounds ==
    /\ \A i \in Cells : heatmap.cells[i] >= 0 /\ heatmap.cells[i] <= 10000
    /\ \A r \in heatmap.radii : r >= 20 /\ r <= 100

C37_Witness ==
    /\ heatmap.frame_count = 2
    /\ Len(last_detections) = MaxBlobs
    /\ heatmap.cells[1] = 10000
    /\ heatmap.cells[2] > 0 /\ heatmap.cells[2] < 10000
    /\ heatmap.radii = {100}

InitHeatToggle == ManagerInit /\ ai.device = "cuda:0" /\ LCIdle

SpecHeatToggle == InitHeatToggle /\ [][HeatToggleNext]_vars

\* C38: under every interleaving of update_camera_config (toggling
\* heatmap_enabled) with a processing cycle, the processing loop never calls
\* update or get_heatmap_overlay on an absent (None) generator.
C38_GeneratorPresent ==
    \A s \in Streams : vs[s].raised \notin {"update", "get_heatmap_overlay"}

InitDowntime ==
    /\ LCRouteInit /\ VSIdle
    /\ RtspInit /\ ClientInit /\ RoiInit /\ HeatmapInit /\ ZoneInit /\ NoDetections

SpecDowntime == InitDowntime /\ [][DowntimeNext]_vars

RECURSIVE SumDurations(_)
SumDurations(periods) ==
    IF periods = <<>> THEN 0
    ELSE Head(periods).duration + SumDurations(Tail(periods))

\* two periods share more than an instant
Overlap(a, b) ==
    (IF a.start > b.start THEN a.start ELSE b.start)
       < (IF a.end < b.end THEN a.end ELSE b.end)

\* C40: downtime accounting - after any sequence of frames (steel present
\* or absent) and any number of stop requests, total_downtime is the sum of
\* the durations of the recorded downtime periods, the periods do not
\* overlap, total_downtime never exceeds the elapsed session time and
\* productive_time is never negative; a second stop adds no downtime.
C40_DowntimeAccounting ==
    /\ rtsp.total_downtime = SumDurations(rtsp.downtime_periods)
    /\ \A i \in DOMAIN rtsp.downtime_periods :
         \A j \in DOMAIN rtsp.downtime_periods :
            i < j => ~Overlap(rtsp.downtime_periods[i], rtsp.downtime_periods[j])
    /\ rtsp.total_downtime <= rtsp.now
    /\ rtsp.productive_time >= 0

InitViolation == ApiInit /\ LCIdle

SpecViolation == InitViolation /\ [][ViolationNext]_vars

SameKey(a, b) == a.object_class = b.object_class /\ a.roi_name = b.roi_name

\* the last accepted time of the violation's key, before the call
Accepted(s, v) ==
    { r \in vs[s].detections_saved : SameKey(r, v) }

\* the call of _handle_violation that this step makes on stream s
Arrives(s) ==
    /\ vs[s].running
    /\ vs[s].processing = "loop"
    /\ vs'[s].violation.object_class # "none"
    /\ vs'[s] # vs[s] \/ vs'[s].violation.dropped

\* C39: violation rate limit - for each key (object class, zone name) of a
\* stream at most one violation is persisted in any window of
\* detection_interval seconds; a violation that arrives less than
\* detection_interval after the last accepted one of its key is dropped with
\* no effect (no record, no alert, last-accepted time unchanged); and a
\* violation is accepted when no violation of its own key was accepted
\* within the interval, whatever was accepted for other keys.
C39_RateLimit ==
    [][\A s \in Streams :
         /\ \A a \in vs'[s].detections_saved : \A b \in vs'[s].detections_saved :
               (SameKey(a, b) /\ a # b) =>
                   Abs(a.time - b.time) >= detection_interval
         /\ Arrives(s) =>
              IF \E r \in Accepted(s, vs'[s].violation) :
                    vs'[s].violation.current_time - r.time < detection_interval
              THEN /\ vs'[s].detections_saved = vs[s].detections_saved
                   /\ vs'[s].alerts_sent = vs[s].alerts_sent
                   /\ vs'[s].last_detection_time = vs[s].last_detection_time
                   /\ vs'[s].processing = "loop"
              ELSE \/ vs'[s].processing = "raised"
                   \/ /\ Row(vs'[s].violation, vs'[s].violation.current_time)
                           \in vs'[s].detections_saved
                      /\ Row(vs'[s].violation, vs'[s].violation.current_time)
                           \in vs'[s].alerts_sent
      ]_vars

C39_Witness ==
    \E s \in Streams :
        /\ vs[s].violation.dropped
        /\ vs[s].violation.object_class = "fire"
        /\ vs[s].violation.roi_name = "Gate"
        /\ vs[s].violation.current_time = 2
        /\ vs[s].detections_saved =
              { [object_class |-> "fire", roi_name |-> "Gate", time |-> 1],
                [object_class |-> "smoke", roi_name |-> "Gate", time |-> 1],
                [object_class |-> "fire", roi_name |-> "Yard", time |-> 2] }

=============================================================================
